---- MODULE Spec2Model ----
(***************************************************************************)
(* Model of the claude-memory-mcp knowledge store: the skills / usage      *)
(* tracker, the failure ledger, the memory store and the context store,    *)
(* each a set of SQLite rows mutated by the exported tool functions.       *)
(*                                                                         *)
(* Conventions.  A nullable column or an optional argument is an option:   *)
(* NULL (<<>>) or Some(v) (<<v>>).  Text that the code inspects character  *)
(* by character (LIKE operands, JSON payloads, timestamps) is a sequence   *)
(* of one-character strings; other text is an ordinary string.             *)
(***************************************************************************)
EXTENDS Integers, Sequences, FiniteSets, TLC

VARIABLES now, skills, skill_usage, failures, memory, context, ret,
          db, memory_fts, failures_fts, pc, peer

vars == <<now, skills, skill_usage, failures, memory, context, ret,
          db, memory_fts, failures_fts, pc, peer>>

----------------------------------------------------------------------------
(* Bounds of the model *)

MaxTicks == 1
MaxUsages == 3
MaxUseCount == 2
MaxOccurrence == 2
MaxFailureId == 2
MaxMemoryId == 3
MaxContextId == 2
MaxOpens == 2
MaxSharedId == 4

----------------------------------------------------------------------------
(* Options, JS truthiness *)

NULL == <<>>
Some(v) == <<v>>

\* ret holds the name, the arguments and the return value of the last call
NoArgs == [none |-> TRUE]

\* JS `s || null` on an optional string: undefined and "" become null
StrOrNull(o) == IF o = NULL \/ o[1] = "" THEN NULL ELSE o

\* JS `t || null` on an optional character-sequence text
TextOrNull(o) == IF o = NULL \/ o[1] = <<>> THEN NULL ELSE o

\* JS `n || null` on an optional number: undefined and 0 become null
NumOrNull(o) == IF o = NULL \/ o[1] = 0 THEN NULL ELSE o

Max(S) == CHOOSE m \in S : \A n \in S : n <= m

\* rowid of a row inserted into an INTEGER PRIMARY KEY table
NextId(table) == IF table = {} THEN 1 ELSE Max({r.id : r \in table}) + 1

\* the orders in which .all() may return a set of rows
\* when no ORDER BY decides
RowOrders(R) ==
  {q \in [1..Cardinality(R) -> R] : \A i, j \in 1..Cardinality(R) : i # j => q[i] # q[j]}

----------------------------------------------------------------------------
(* Clock and timestamps.  Time is counted in minutes. *)

MinutesPerDay == 24 * 60

\* the run starts one minute before midnight (UTC)
StartTime == MinutesPerDay - 1

\* ordinal of a character in the BINARY collation (only the two separators
\* that decide a comparison of an ISO string with an SQLite timestamp)
CharCode(c) == CASE c = " " -> 32 [] c = "T" -> 84

\* SQLite CURRENT_TIMESTAMP: 'YYYY-MM-DD HH:MM:SS'
CurrentTimestamp(t) == <<t \div MinutesPerDay, " ", t % MinutesPerDay>>

\* JS new Date(t).toISOString(): 'YYYY-MM-DDTHH:MM:SS.sssZ'
ToISOString(t) == <<t \div MinutesPerDay, "T", t % MinutesPerDay>>

\* the instant a stored timestamp text denotes
InstantOf(ts) == ts[1] * MinutesPerDay + ts[3]

\* SQLite `a < b` on two TEXT values (memcmp): date, then separator, then time
TextLess(a, b) ==
  \/ a[1] < b[1]
  \/ a[1] = b[1] /\ CharCode(a[2]) < CharCode(b[2])
  \/ a[1] = b[1] /\ a[2] = b[2] /\ a[3] < b[3]

----------------------------------------------------------------------------
(* SQLite LIKE on character sequences: % any run, _ any one character,     *)
(* ASCII letters compared without case.                                    *)

Fold(c) ==
  CASE c = "W" -> "w"
    [] c = "A" -> "a"
    [] OTHER -> c

RECURSIVE Like(_, _)
Like(s, p) ==
  IF p = <<>> THEN s = <<>>
  ELSE IF Head(p) = "%"
       THEN Like(s, Tail(p)) \/ (s # <<>> /\ Like(Tail(s), p))
       ELSE /\ s # <<>>
            /\ (Head(p) = "_" \/ Fold(Head(p)) = Fold(Head(s)))
            /\ Like(Tail(s), Tail(p))

\* literal (case-sensitive) substring test, used by the properties only
Contains(s, t) ==
  \E i \in 1..(Len(s) + 1) :
    /\ i + Len(t) - 1 <= Len(s)
    /\ SubSeq(s, i, i + Len(t) - 1) = t

----------------------------------------------------------------------------
(* Rationals as <<numerator, denominator>> with denominator > 0 *)

RatEq(a, b) == a[1] * b[2] = b[1] * a[2]
RatLess(a, b) == a[1] * b[2] < b[1] * a[2]

----------------------------------------------------------------------------
(* JSON values and their text.  A value is a tagged tuple; its text is the  *)
(* character sequence JSON.stringify produces and JSON.parse reads back.    *)

JNull == <<"null">>
JBool(b) == <<"bool", b>>
JNum(n) == <<"num", n>>
JStr(s) == <<"str", s>>
JArr(a) == <<"arr", a>>
JObj(m) == <<"obj", m>>

Digits == <<"0", "1", "2", "3", "4", "5", "6", "7", "8", "9">>
IsDigit(c) == \E i \in 1..Len(Digits) : Digits[i] = c
DigitValue(c) == (CHOOSE i \in 1..Len(Digits) : Digits[i] = c) - 1

RECURSIVE NumberText(_)
NumberText(n) ==
  IF n < 0 THEN <<"-">> \o NumberText(0 - n)
  ELSE IF n < 10 THEN <<Digits[n + 1]>>
  ELSE NumberText(n \div 10) \o <<Digits[(n % 10) + 1]>>

\* a string body with " and \ escaped
RECURSIVE EscapeText(_)
EscapeText(s) ==
  IF s = <<>> THEN <<>>
  ELSE IF Head(s) = "\"" \/ Head(s) = "\\"
       THEN <<"\\", Head(s)>> \o EscapeText(Tail(s))
       ELSE <<Head(s)>> \o EscapeText(Tail(s))

QuoteText(s) == <<"\"">> \o EscapeText(s) \o <<"\"">>

RECURSIVE JSONStringify(_)
RECURSIVE StringifyElements(_)
RECURSIVE StringifyMembers(_)

StringifyElements(a) ==
  IF a = <<>> THEN <<>>
  ELSE IF Len(a) = 1 THEN JSONStringify(a[1])
  ELSE JSONStringify(a[1]) \o <<",">> \o StringifyElements(Tail(a))

StringifyMembers(m) ==
  IF m = <<>> THEN <<>>
  ELSE LET member == QuoteText(m[1][1]) \o <<":">> \o JSONStringify(m[1][2])
       IN  IF Len(m) = 1 THEN member
           ELSE member \o <<",">> \o StringifyMembers(Tail(m))

\* JSON.stringify(value)
JSONStringify(v) ==
  CASE v[1] = "null" -> <<"n", "u", "l", "l">>
    [] v[1] = "bool" -> IF v[2] THEN <<"t", "r", "u", "e">>
                        ELSE <<"f", "a", "l", "s", "e">>
    [] v[1] = "num" -> NumberText(v[2])
    [] v[1] = "str" -> QuoteText(v[2])
    [] v[1] = "arr" -> <<"[">> \o StringifyElements(v[2]) \o <<"]">>
    [] v[1] = "obj" -> <<"{">> \o StringifyMembers(v[2]) \o <<"}">>

\* a parse step yields the value read and the text left, or fails
ParseFail == [ok |-> FALSE, value |-> JNull, rest |-> <<>>]
ParseOk(v, rest) == [ok |-> TRUE, value |-> v, rest |-> rest]

StartsWith(t, w) == Len(t) >= Len(w) /\ SubSeq(t, 1, Len(w)) = w
Drop(t, n) == SubSeq(t, n + 1, Len(t))

\* the digits at the head of t, as a number continuing acc
RECURSIVE ParseDigits(_, _)
ParseDigits(t, acc) ==
  IF t # <<>> /\ IsDigit(Head(t))
  THEN ParseDigits(Tail(t), acc * 10 + DigitValue(Head(t)))
  ELSE ParseOk(JNum(acc), t)

\* an unsigned integer: no leading zero before another digit
ParseUnsigned(t) ==
  IF t = <<>> \/ ~IsDigit(Head(t)) THEN ParseFail
  ELSE IF Head(t) = "0" /\ Len(t) >= 2 /\ IsDigit(t[2]) THEN ParseFail
  ELSE ParseDigits(t, 0)

ParseNumber(t) ==
  IF t # <<>> /\ Head(t) = "-"
  THEN LET r == ParseUnsigned(Tail(t))
       IN  IF r.ok THEN ParseOk(JNum(0 - r.value[2]), r.rest) ELSE ParseFail
  ELSE ParseUnsigned(t)

\* the body of a string after its opening quote, up to the closing quote
RECURSIVE ParseStringBody(_, _)
ParseStringBody(t, acc) ==
  IF t = <<>> THEN ParseFail
  ELSE IF Head(t) = "\"" THEN ParseOk(JStr(acc), Tail(t))
  ELSE IF Head(t) = "\\"
       THEN IF Len(t) >= 2 /\ (t[2] = "\"" \/ t[2] = "\\")
            THEN ParseStringBody(Drop(t, 2), Append(acc, t[2]))
            ELSE ParseFail
       ELSE ParseStringBody(Tail(t), Append(acc, Head(t)))

ParseString(t) ==
  IF t # <<>> /\ Head(t) = "\"" THEN ParseStringBody(Tail(t), <<>>) ELSE ParseFail

RECURSIVE ParseValue(_)
RECURSIVE ParseElements(_, _)
RECURSIVE ParseMembers(_, _)

\* the elements of an array after "[" or ",", up to "]"
ParseElements(t, acc) ==
  LET r == ParseValue(t)
  IN  IF ~r.ok \/ r.rest = <<>> THEN ParseFail
      ELSE IF Head(r.rest) = "]" THEN ParseOk(JArr(Append(acc, r.value)), Tail(r.rest))
      ELSE IF Head(r.rest) = "," THEN ParseElements(Tail(r.rest), Append(acc, r.value))
      ELSE ParseFail

\* the members of an object after "{" or ",", up to "}"
ParseMembers(t, acc) ==
  LET k == ParseString(t)
  IN  IF ~k.ok \/ k.rest = <<>> \/ Head(k.rest) # ":" THEN ParseFail
      ELSE LET r == ParseValue(Tail(k.rest))
               member == <<k.value[2], r.value>>
           IN  IF ~r.ok \/ r.rest = <<>> THEN ParseFail
               ELSE IF Head(r.rest) = "}"
                    THEN ParseOk(JObj(Append(acc, member)), Tail(r.rest))
               ELSE IF Head(r.rest) = ","
                    THEN ParseMembers(Tail(r.rest), Append(acc, member))
               ELSE ParseFail

ParseValue(t) ==
  IF t = <<>> THEN ParseFail
  ELSE IF StartsWith(t, <<"n", "u", "l", "l">>) THEN ParseOk(JNull, Drop(t, 4))
  ELSE IF StartsWith(t, <<"t", "r", "u", "e">>) THEN ParseOk(JBool(TRUE), Drop(t, 4))
  ELSE IF StartsWith(t, <<"f", "a", "l", "s", "e">>) THEN ParseOk(JBool(FALSE), Drop(t, 5))
  ELSE IF Head(t) = "\"" THEN ParseString(t)
  ELSE IF Head(t) = "[" 
       THEN IF Len(t) >= 2 /\ t[2] = "]" THEN ParseOk(JArr(<<>>), Drop(t, 2))
            ELSE ParseElements(Tail(t), <<>>)
  ELSE IF Head(t) = "{"
       THEN IF Len(t) >= 2 /\ t[2] = "}" THEN ParseOk(JObj(<<>>), Drop(t, 2))
            ELSE ParseMembers(Tail(t), <<>>)
  ELSE ParseNumber(t)

\* JSON.parse(text): the value, or a failure (a SyntaxError) when the text is
\* not one complete JSON value
JSONParse(t) ==
  LET r == ParseValue(t)
  IN  IF r.ok /\ r.rest = <<>> THEN [ok |-> TRUE, value |-> r.value]
      ELSE [ok |-> FALSE, value |-> JNull]

----------------------------------------------------------------------------
(* Storage engine (src/database.ts).  db is the module variable holding the *)
(* handle: handle is NULL or the number of the open connection, opens      *)
(* counts the connections made so far, live is the set of connections not  *)
(* yet closed, schema_runs counts the runs of initializeSchema.  The tables *)
(* live in the database file and outlast a handle.                         *)

\* let db: Database.Database | null = null
NoHandle == [handle |-> NULL, opens |-> 0, live |-> {}, schema_runs |-> 0]

\* mutant: a connection is made on every call, without the if (!db) test
OpenHandleAlways(d) ==
  [handle |-> Some(d.opens + 1), opens |-> d.opens + 1,
   live |-> d.live \cup {d.opens + 1}, schema_runs |-> d.schema_runs + 1]

\* getDatabase(): if (!db) { db = new Database(DB_PATH); ...; initializeSchema(db) }
OpenHandle(d) ==
  IF d.handle # NULL THEN d
  ELSE [handle |-> Some(d.opens + 1), opens |-> d.opens + 1,
        live |-> d.live \cup {d.opens + 1}, schema_runs |-> d.schema_runs + 1]

\* closeDatabase(): if (db) { db.close(); db = null }
CloseHandle(d) ==
  IF d.handle # NULL THEN [d EXCEPT !.live = d.live \ {d.handle[1]}, !.handle = NULL]
  ELSE d

\* the entry of a memory row in memory_fts (rowid, key, content, tags)
MemoryFtsEntry(m) ==
  [rowid |-> m.id, key |-> m.key, content |-> m.content, tags |-> m.tags]

\* the entry of a failures row in failures_fts
FailuresFtsEntry(f) ==
  [rowid |-> f.id, error_pattern |-> f.error_pattern,
   error_message |-> f.error_message, solution |-> f.solution]

\* mutant: no AFTER UPDATE trigger, only inserted and deleted rowids are indexed
MemoryTriggersNoUpdate(index, old, new) ==
  {e \in index : \E m \in new : m.id = e.rowid} \cup
    {MemoryFtsEntry(m) : m \in {n \in new : \A o \in old : o.id # n.id}}

\* triggers memory_ai, memory_ad, memory_au: the 'delete' command with the old
\* column values for every row deleted or updated, an insert with the new
\* values for every row inserted or updated
MemoryTriggers(index, old, new) ==
  (index \ {MemoryFtsEntry(m) : m \in old \ new}) \cup
    {MemoryFtsEntry(m) : m \in new \ old}

\* triggers failures_ai, failures_ad, failures_au
FailuresTriggers(index, old, new) ==
  (index \ {FailuresFtsEntry(f) : f \in old \ new}) \cup
    {FailuresFtsEntry(f) : f \in new \ old}

\* no call is in progress
Idle == [op |-> "none"]

\* what every statement does besides its own writes: it runs on the handle
\* getDatabase() returned and fires the triggers of the rows it changed.  peer
\* is the call in progress in another server process on the same database
\* file; a statement of this process leaves it where it is.
Statement ==
  /\ peer' = peer
  /\ db' = OpenHandle(db)
  /\ memory_fts' = MemoryTriggers(memory_fts, memory, memory')
  /\ failures_fts' = FailuresTriggers(failures_fts, failures, failures')

\* a handler that runs from call to return in one step
Engine ==
  /\ pc = Idle
  /\ pc' = pc
  /\ Statement

\* a call of getDatabase() from outside a handler
getDatabase ==
  /\ pc = Idle
  /\ db.handle = NULL => db.opens < MaxOpens
  /\ db' = OpenHandle(db)
  /\ ret' = [op |-> "getDatabase", args |-> NoArgs, result |-> [handle |-> db'.handle]]
  /\ UNCHANGED <<now, skills, skill_usage, failures, memory, context,
                 memory_fts, failures_fts, pc, peer>>

\* a call of closeDatabase()
closeDatabase ==
  /\ pc = Idle
  /\ db.opens < MaxOpens
  /\ db' = CloseHandle(db)
  /\ ret' = [op |-> "closeDatabase", args |-> NoArgs, result |-> [none |-> TRUE]]
  /\ UNCHANGED <<now, skills, skill_usage, failures, memory, context,
                 memory_fts, failures_fts, pc, peer>>

----------------------------------------------------------------------------
(* Skill registry and usage tracker (src/tools/skills.ts) *)

SkillNames == {"A", "B"}
Versions == {"1.0"}
Sources == {"local"}
Installers == {NULL}

\* project paths and project types, as character sequences
PathWeb == <<"/", "W", "e", "b">>
PathApi == <<"/", "a", "p", "i">>
RegisterPaths == {NULL}
\* the arguments of a registration that changes a registered skill
NewVersions == {"1.0", "2.0"}
NewSources == {"local", "github"}
NewPaths == {NULL, Some(<<>>), Some(PathWeb)}
UsagePaths == {Some(PathWeb)}
ProjectTypes == {NULL, Some(<<>>), Some(<<"w", "e", "b">>), Some(<<"a", "p", "i">>)}

\* the optional arguments of usage_end
UsageEndDetails ==
  {[outcome |-> Some("done"), tokens_used |-> Some(100), notes |-> NULL]}
Limits == {NULL, Some(1)}

\* limit = 5 default of skillRecommend
DefaultLimit == 5

HasSkill(name) == \E s \in skills : s.name = name

\* mutant: INSERT OR REPLACE INTO skills, the old row is dropped and the
\* counters of the skill start again
skillRegisterRowsReplace(name, version, source, project_path, installed_by) ==
  {s \in skills : s.name # name} \cup
    {[id |-> NextId(skills), name |-> name, version |-> version,
      source |-> source, project_path |-> TextOrNull(project_path),
      installed_by |-> StrOrNull(installed_by),
      installed_at |-> CurrentTimestamp(now), last_used_at |-> NULL,
      use_count |-> 0]}

\* INSERT INTO skills ... ON CONFLICT(name) DO UPDATE SET version, source, project_path
skillRegisterRows(name, version, source, project_path, installed_by) ==
  IF HasSkill(name)
  THEN {IF s.name = name
        THEN [s EXCEPT !.version = version, !.source = source,
                       !.project_path = TextOrNull(project_path)]
        ELSE s : s \in skills}
  ELSE skills \cup
       {[id |-> NextId(skills), name |-> name, version |-> version,
         source |-> source, project_path |-> TextOrNull(project_path),
         installed_by |-> StrOrNull(installed_by),
         installed_at |-> CurrentTimestamp(now), last_used_at |-> NULL,
         use_count |-> 0]}

skillRegister(name, version, source, project_path, installed_by) ==
  /\ skills' = skillRegisterRows(name, version, source, project_path, installed_by)
  /\ ret' = [op |-> "skill_register",
             args |-> [name |-> name, version |-> version, source |-> source,
                       project_path |-> project_path, installed_by |-> installed_by],
             result |-> [success |-> TRUE,
                         skill |-> CHOOSE s \in skills' : s.name = name]]
  /\ UNCHANGED <<now, skill_usage, failures, memory, context>>
  /\ Engine

\* the row INSERT INTO skill_usage (skill_name, project_path, started_at) adds
NewUsage(skill_name, project_path) ==
  [id |-> NextId(skill_usage), skill_name |-> skill_name,
   project_path |-> TextOrNull(project_path),
   started_at |-> Some(CurrentTimestamp(now)), completed_at |-> NULL,
   success |-> NULL, outcome |-> NULL, tokens_used |-> NULL, notes |-> NULL]

\* UPDATE skills SET last_used_at = CURRENT_TIMESTAMP WHERE name = ?
StampLastUsed(skill_name) ==
  {IF s.name = skill_name
   THEN [s EXCEPT !.last_used_at = Some(CurrentTimestamp(now))]
   ELSE s : s \in skills}

\* mutant: the connection does not set pragma foreign_keys = ON
ForeignKeyUnchecked(skill_name) == TRUE

\* FOREIGN KEY (skill_name) REFERENCES skills(name), enforced on the
\* connection by pragma foreign_keys = ON
ForeignKeyHolds(skill_name) == HasSkill(skill_name)

\* the insert violates FOREIGN KEY (skill_name) REFERENCES skills(name) when
\* the skill is not registered: the statement throws and nothing is written
skillUsageStart(skill_name, project_path) ==
  /\ Cardinality(skill_usage) < MaxUsages
  /\ IF ForeignKeyHolds(skill_name)
     THEN /\ skill_usage' = skill_usage \cup {NewUsage(skill_name, project_path)}
          /\ skills' = StampLastUsed(skill_name)
          /\ ret' = [op |-> "skill_usage_start",
                     args |-> [skill_name |-> skill_name, project_path |-> project_path],
                     result |-> [success |-> TRUE, usage_id |-> NextId(skill_usage)]]
     ELSE /\ UNCHANGED <<skill_usage, skills>>
          /\ ret' = [op |-> "skill_usage_start",
                     args |-> [skill_name |-> skill_name, project_path |-> project_path],
                     result |-> [error |-> "FOREIGN KEY constraint failed"]]
  /\ UNCHANGED <<now, failures, memory, context>>
  /\ Engine

\* UPDATE skill_usage SET completed_at, success, outcome, tokens_used, notes WHERE id = ?
CompleteUsage(usage_id, success, outcome, tokens_used, notes) ==
  {IF u.id = usage_id
   THEN [u EXCEPT !.completed_at = Some(CurrentTimestamp(now)),
                  !.success = Some(IF success THEN 1 ELSE 0),
                  !.outcome = StrOrNull(outcome),
                  !.tokens_used = NumOrNull(tokens_used),
                  !.notes = StrOrNull(notes)]
   ELSE u : u \in skill_usage}

\* mutant: the counter is updated by rowid, without the lookup of the usage
CountUsageByRowid(usage_id) ==
  {IF s.id = usage_id THEN [s EXCEPT !.use_count = s.use_count + 1] ELSE s :
     s \in skills}

\* SELECT skill_name FROM skill_usage WHERE id = ?; if found,
\* UPDATE skills SET use_count = use_count + 1 WHERE name = ?
CountUsage(usage_id) ==
  IF \E u \in skill_usage : u.id = usage_id
  THEN LET usage == CHOOSE u \in skill_usage : u.id = usage_id
       IN  {IF s.name = usage.skill_name
            THEN [s EXCEPT !.use_count = s.use_count + 1]
            ELSE s : s \in skills}
  ELSE skills

skillUsageEnd(usage_id, success, outcome, tokens_used, notes) ==
  /\ \A s \in skills : s.use_count < MaxUseCount
  /\ skill_usage' = CompleteUsage(usage_id, success, outcome, tokens_used, notes)
  /\ skills' = CountUsage(usage_id)
  /\ ret' = [op |-> "skill_usage_end",
             args |-> [usage_id |-> usage_id, success |-> success, outcome |-> outcome,
                       tokens_used |-> tokens_used, notes |-> notes],
             result |-> [success |-> TRUE]]
  /\ UNCHANGED <<now, failures, memory, context>>
  /\ Engine

\* rows of skill_usage joined to skill s (LEFT JOIN ... ON s.name = u.skill_name),
\* restricted by WHERE u.project_path LIKE '%project_type%' when a type is given
JoinedUsages(s, project_type) ==
  {u \in skill_usage :
     /\ u.skill_name = s.name
     /\ TextOrNull(project_type) # NULL =>
          /\ u.project_path # NULL
          /\ Like(u.project_path[1], <<"%">> \o project_type[1] \o <<"%">>)}

\* CASE WHEN u.success THEN 1.0 ELSE 0.0 END summed over the joined rows
SuccessSum(U) == Cardinality({u \in U : u.success = Some(1)})

\* one group per skill (GROUP BY s.id).  A skill without joined usage keeps
\* one all-NULL joined row in the unfiltered query (AVG = 0.0, COUNT = 0) and
\* has no row at all in the filtered one.
RecommendGroups(project_type) ==
  {[skill |-> s,
    success_rate |-> IF JoinedUsages(s, project_type) = {} THEN <<0, 1>>
                     ELSE <<SuccessSum(JoinedUsages(s, project_type)),
                            Cardinality(JoinedUsages(s, project_type))>>,
    usage_count |-> Cardinality(JoinedUsages(s, project_type))] :
     s \in {t \in skills :
              TextOrNull(project_type) # NULL => JoinedUsages(t, project_type) # {}}}

\* mutant: ORDER BY usage_count DESC, success_rate DESC
RecommendBeforeByCount(a, b) ==
  \/ a.usage_count > b.usage_count
  \/ a.usage_count = b.usage_count /\ RatLess(b.success_rate, a.success_rate)

\* ORDER BY success_rate DESC, usage_count DESC: a sorts strictly before b
RecommendBefore(a, b) ==
  \/ RatLess(b.success_rate, a.success_rate)
  \/ RatEq(a.success_rate, b.success_rate) /\ a.usage_count > b.usage_count

\* every order of the groups the ORDER BY allows (rows that tie may come
\* in either order)
OrderedGroups(G) ==
  {q \in [1..Cardinality(G) -> G] :
     /\ \A i, j \in 1..Cardinality(G) : i # j => q[i] # q[j]
     /\ \A i, j \in 1..Cardinality(G) : i < j => ~RecommendBefore(q[j], q[i])}

\* LIMIT n (a negative n means no limit in SQLite)
SqlLimit(q, n) ==
  IF n < 0 \/ n >= Len(q) THEN q ELSE SubSeq(q, 1, n)

RecommendLimit(limit) == IF limit = NULL THEN DefaultLimit ELSE limit[1]

skillRecommendRows(project_type, limit) ==
  {SqlLimit(q, RecommendLimit(limit)) : q \in OrderedGroups(RecommendGroups(project_type))}

skillRecommend(project_type, limit) ==
  /\ \E rows \in skillRecommendRows(project_type, limit) :
       ret' = [op |-> "skill_recommend",
               args |-> [project_type |-> project_type, limit |-> limit],
               result |-> [rows |-> rows]]
  /\ UNCHANGED <<now, skills, skill_usage, failures, memory, context>>
  /\ Engine

\* time passes between calls
Tick ==
  /\ now < StartTime + MaxTicks
  /\ now' = now + 1
  /\ pc = Idle
  /\ UNCHANGED <<skills, skill_usage, failures, memory, context, ret,
                 db, memory_fts, failures_fts, pc, peer>>

----------------------------------------------------------------------------
(* Failure ledger (src/tools/failures.ts) *)

ErrorPatterns == {"TypeError: x", "ENOENT"}
ErrorMessages == {NULL, Some(""), Some("msg")}
Solutions == {NULL, Some(""), Some("fix1")}
FailureSkills == {NULL}
FailurePaths == {NULL}
\* the solution argument of failure_update is a required string
UpdateSolutions == {"", "fix1"}
FailureIds == 1..MaxFailureId

FailuresWithPattern(error_pattern) ==
  {f \in failures : f.error_pattern = error_pattern}

\* SELECT ... FROM failures WHERE error_pattern = ? with .get(): the first
\* matching row, in rowid order
FailureByPattern(rows, error_pattern) ==
  CHOOSE f \in rows :
    /\ f.error_pattern = error_pattern
    /\ \A g \in rows : g.error_pattern = error_pattern => f.id <= g.id

\* mutant: the new value is stored without COALESCE
CoalesceOverwrites(a, b) == a

\* SQL COALESCE(a, b)
Coalesce(a, b) == IF a # NULL THEN a ELSE b

\* UPDATE failures SET occurrence_count = occurrence_count + 1, last_seen_at,
\* solution = COALESCE(?, solution), error_message = COALESCE(?, error_message)
\* WHERE id = ?
BumpFailure(f, error_message, solution) ==
  [f EXCEPT !.occurrence_count = f.occurrence_count + 1,
            !.last_seen_at = CurrentTimestamp(now),
            !.solution = Coalesce(StrOrNull(solution), f.solution),
            !.error_message = Coalesce(StrOrNull(error_message), f.error_message)]

\* INSERT INTO failures (error_pattern, error_message, solution, skill_name, project_path)
NewFailure(error_pattern, error_message, solution, skill_name, project_path) ==
  [id |-> NextId(failures), error_pattern |-> error_pattern,
   error_message |-> StrOrNull(error_message), solution |-> StrOrNull(solution),
   skill_name |-> StrOrNull(skill_name), project_path |-> StrOrNull(project_path),
   occurrence_count |-> 1, last_seen_at |-> CurrentTimestamp(now),
   created_at |-> CurrentTimestamp(now)]

\* mutant: no lookup of an existing row, every record inserts
failureRecordRowsAlwaysInsert(error_pattern, error_message, solution, skill_name, project_path) ==
  failures \cup
    {NewFailure(error_pattern, error_message, solution, skill_name, project_path)}

\* mutant: an existing row is rewritten from the arguments of the new call
failureRecordRowsRewrite(error_pattern, error_message, solution, skill_name, project_path) ==
  IF FailuresWithPattern(error_pattern) # {}
  THEN LET existing == FailureByPattern(failures, error_pattern)
       IN  (failures \ {existing}) \cup
           {[NewFailure(error_pattern, error_message, solution, skill_name, project_path)
               EXCEPT !.id = existing.id,
                      !.occurrence_count = existing.occurrence_count + 1]}
  ELSE failures \cup
       {NewFailure(error_pattern, error_message, solution, skill_name, project_path)}

failureRecordRows(error_pattern, error_message, solution, skill_name, project_path) ==
  IF FailuresWithPattern(error_pattern) # {}
  THEN LET existing == FailureByPattern(failures, error_pattern)
       IN  {IF f.id = existing.id THEN BumpFailure(f, error_message, solution) ELSE f :
              f \in failures}
  ELSE failures \cup
       {NewFailure(error_pattern, error_message, solution, skill_name, project_path)}

failureRecord(error_pattern, error_message, solution, skill_name, project_path) ==
  /\ \A f \in FailuresWithPattern(error_pattern) : f.occurrence_count < MaxOccurrence
  /\ FailuresWithPattern(error_pattern) = {} => NextId(failures) <= MaxFailureId
  /\ failures' = failureRecordRows(error_pattern, error_message, solution,
                                   skill_name, project_path)
  /\ ret' = [op |-> "failure_record",
             args |-> [error_pattern |-> error_pattern, error_message |-> error_message,
                       solution |-> solution, skill_name |-> skill_name,
                       project_path |-> project_path],
             result |-> [success |-> TRUE,
                         failure |-> FailureByPattern(failures', error_pattern)]]
  /\ UNCHANGED <<now, skills, skill_usage, memory, context>>
  /\ Engine

\* UPDATE failures SET solution = ? WHERE id = ?
failureUpdateRows(id, solution) ==
  {IF f.id = id THEN [f EXCEPT !.solution = Some(solution)] ELSE f : f \in failures}

failureUpdate(id, solution) ==
  /\ failures' = failureUpdateRows(id, solution)
  /\ ret' = [op |-> "failure_update", args |-> [id |-> id, solution |-> Some(solution)],
             result |-> [success |-> TRUE]]
  /\ UNCHANGED <<now, skills, skill_usage, memory, context>>
  /\ Engine

\* DELETE FROM failures WHERE id = ?
failureDelete(id) ==
  /\ failures' = {f \in failures : f.id # id}
  /\ ret' = [op |-> "failure_delete", args |-> [id |-> id],
             result |-> [success |-> TRUE, deleted |-> \E f \in failures : f.id = id]]
  /\ UNCHANGED <<now, skills, skill_usage, memory, context>>
  /\ Engine

----------------------------------------------------------------------------
(* Memory store (src/tools/memory.ts) *)

MemoryKeys == {"tip:a", "tip:b"}
Contents == {"c1", "c2"}
TagLists == {NULL, Some(<<>>), Some(<< <<"t">> >>)}
Scopes == {NULL, Some("project:x")}
MemorySources == {NULL, Some("evolve")}

\* scope = 'global' default of memoryWrite
DefaultScope == "global"
\* source = 'manual' default of memoryWrite
DefaultSource == "manual"

\* tags ? JSON.stringify(tags) : null (an array, even an empty one, is truthy)
TagsJson(tags) ==
  IF tags = NULL THEN NULL
  ELSE Some(JSONStringify(JArr([i \in 1..Len(tags[1]) |-> JStr(tags[1][i])])))

OrDefault(o, d) == IF o = NULL THEN d ELSE o[1]

\* mutant: INSERT OR REPLACE, the old row is dropped and a new one inserted
memoryWriteRowsReplace(key, content, tags, scope, source) ==
  {m \in memory : m.key # key} \cup
    {[id |-> NextId(memory), key |-> key, content |-> content,
      tags |-> TagsJson(tags), scope |-> OrDefault(scope, DefaultScope),
      source |-> Some(OrDefault(source, DefaultSource)),
      created_at |-> CurrentTimestamp(now), updated_at |-> CurrentTimestamp(now)]}

\* INSERT INTO memory (key, content, tags, scope, source, updated_at) ...
\* ON CONFLICT(key) DO UPDATE SET content, tags, scope, source, updated_at
memoryWriteRows(key, content, tags, scope, source) ==
  IF \E m \in memory : m.key = key
  THEN {IF m.key = key
        THEN [m EXCEPT !.content = content, !.tags = TagsJson(tags),
                       !.scope = OrDefault(scope, DefaultScope),
                       !.source = Some(OrDefault(source, DefaultSource)),
                       !.updated_at = CurrentTimestamp(now)]
        ELSE m : m \in memory}
  ELSE memory \cup
       {[id |-> NextId(memory), key |-> key, content |-> content,
         tags |-> TagsJson(tags), scope |-> OrDefault(scope, DefaultScope),
         source |-> Some(OrDefault(source, DefaultSource)),
         created_at |-> CurrentTimestamp(now), updated_at |-> CurrentTimestamp(now)]}

memoryWrite(key, content, tags, scope, source) ==
  /\ (\A m \in memory : m.key # key) => NextId(memory) <= MaxMemoryId
  /\ memory' = memoryWriteRows(key, content, tags, scope, source)
  /\ ret' = [op |-> "memory_write",
             args |-> [key |-> key, content |-> content, tags |-> tags,
                       scope |-> scope, source |-> source],
             result |-> [success |-> TRUE, key |-> key]]
  /\ UNCHANGED <<now, skills, skill_usage, failures, context>>
  /\ Engine

\* mutant: the result does not look at result.changes
memoryDeleteReportsDeleted(key) ==
  /\ memory' = {m \in memory : m.key # key}
  /\ ret' = [op |-> "memory_delete", args |-> [key |-> key],
             result |-> [success |-> TRUE, deleted |-> TRUE]]
  /\ UNCHANGED <<now, skills, skill_usage, failures, context>>
  /\ Engine

\* DELETE FROM memory WHERE key = ?
memoryDelete(key) ==
  /\ memory' = {m \in memory : m.key # key}
  /\ ret' = [op |-> "memory_delete", args |-> [key |-> key],
             result |-> [success |-> TRUE, deleted |-> \E m \in memory : m.key = key]]
  /\ UNCHANGED <<now, skills, skill_usage, failures, context>>
  /\ Engine

\* the characters of the keys, contents and queries of the model
Chars(text) ==
  CASE text = "tip:a" -> <<"t", "i", "p", ":", "a">>
    [] text = "tip:b" -> <<"t", "i", "p", ":", "b">>
    [] text = "c1" -> <<"c", "1">>
    [] text = "c2" -> <<"c", "2">>
    [] text = "tip" -> <<"t", "i", "p">>
    [] text = "t" -> <<"t">>
    [] text = "" -> <<>>
    [] text = "tip:A" -> <<"t", "i", "p", ":", "A">>
    [] text = "tip:_" -> <<"t", "i", "p", ":", "_">>
    [] text = "%b" -> <<"%", "b">>

\* characters that end a token of the unicode61 tokenizer (the default of fts5)
Separators == {":", "[", "]", "\"", ",", " ", "{", "}", "\\"}

\* the tokens of a text: its maximal runs of characters that are no separators
RECURSIVE Tokenize(_, _)
Tokenize(chars, token) ==
  IF chars = <<>> THEN (IF token = <<>> THEN {} ELSE {token})
  ELSE IF Head(chars) \in Separators
       THEN (IF token = <<>> THEN {} ELSE {token}) \cup Tokenize(Tail(chars), <<>>)
       ELSE Tokenize(Tail(chars), Append(token, Head(chars)))

\* the tokens memory_fts holds for an entry: those of key, content and tags
EntryTokens(e) ==
  Tokenize(Chars(e.key), <<>>) \cup Tokenize(Chars(e.content), <<>>) \cup
    (IF e.tags = NULL THEN {} ELSE Tokenize(e.tags[1], <<>>))

\* memory_fts MATCH ? for a query of one word
Matches(e, query) == Tokenize(Chars(query), <<>>) \subseteq EntryTokens(e)

ListScopes == {NULL, Some(""), Some("project:x")}
WriteScopes == {NULL, Some(""), Some("project:x")}
Prefixes == {NULL, Some("tip:a")}
Queries == {"tip", "c1", "t"}
MemoryLimits == {NULL, Some(1)}
\* prefixes with a LIKE wildcard or a letter of the other case
ListPrefixes == {NULL, Some(""), Some("tip:a"), Some("tip:A"), Some("tip:_"), Some("%b")}

\* limit = 100 default of memoryList
DefaultListLimit == 100
\* limit = 20 default of memorySearch
DefaultSearchLimit == 20

\* SELECT * FROM memory WHERE key = ?; result || null
memoryReadRow(rows, key) ==
  IF \E m \in rows : m.key = key THEN Some(CHOOSE m \in rows : m.key = key) ELSE NULL

memoryRead(key) ==
  /\ ret' = [op |-> "memory_read", args |-> [key |-> key],
             result |-> [entry |-> memoryReadRow(memory, key)]]
  /\ UNCHANGED <<now, skills, skill_usage, failures, memory, context>>
  /\ Engine

\* mutant: the scope argument is not used in the WHERE clause
ScopeFilterNone(rows, scope) == rows

\* if (scope) ... AND scope = ?
ScopeFilter(rows, scope) ==
  IF StrOrNull(scope) = NULL THEN rows ELSE {m \in rows : m.scope = scope[1]}

\* if (prefix) ... AND key LIKE 'prefix%'
PrefixFilter(rows, prefix) ==
  IF StrOrNull(prefix) = NULL THEN rows
  ELSE {m \in rows : Like(Chars(m.key), Chars(prefix[1]) \o <<"%">>)}

\* every order of the rows ORDER BY updated_at DESC allows
UpdatedFirst(R) ==
  {q \in RowOrders(R) :
     \A i, j \in 1..Cardinality(R) :
       i < j => ~TextLess(q[i].updated_at, q[j].updated_at)}

memoryListRows(scope, prefix, limit) ==
  {SqlLimit(q, OrDefault(limit, DefaultListLimit)) :
     q \in UpdatedFirst(PrefixFilter(ScopeFilter(memory, scope), prefix))}

memoryList(scope, prefix, limit) ==
  /\ \E rows \in memoryListRows(scope, prefix, limit) :
       ret' = [op |-> "memory_list",
               args |-> [scope |-> scope, prefix |-> prefix, limit |-> limit],
               result |-> [rows |-> rows]]
  /\ UNCHANGED <<now, skills, skill_usage, failures, memory, context>>
  /\ Engine

\* SELECT m.* FROM memory m JOIN memory_fts fts ON m.id = fts.rowid
\* WHERE memory_fts MATCH ? [AND m.scope = ?]
SearchHits(query, scope) ==
  ScopeFilter({m \in memory : \E e \in memory_fts : e.rowid = m.id /\ Matches(e, query)},
              scope)

\* ORDER BY rank LIMIT ?: rank is the bm25 score, here any order
memorySearchRows(query, scope, limit) ==
  {SqlLimit(q, OrDefault(limit, DefaultSearchLimit)) : q \in RowOrders(SearchHits(query, scope))}

memorySearch(query, scope, limit) ==
  /\ \E rows \in memorySearchRows(query, scope, limit) :
       ret' = [op |-> "memory_search",
               args |-> [query |-> query, scope |-> scope, limit |-> limit],
               result |-> [rows |-> rows]]
  /\ UNCHANGED <<now, skills, skill_usage, failures, memory, context>>
  /\ Engine

----------------------------------------------------------------------------
(* Context store (src/tools/context.ts) *)

Sessions == {"s1", "s2"}
ContextKeys == {"k1", "k2"}
ContextSkills == {NULL}
ExpiryMinutes == {NULL, Some(0 - 1), Some(0), Some(1)}

ValueA1 == JObj(<< << <<"a">>, JNum(1) >> >>)
ContextValues == {ValueA1, JStr(<<"x">>)}

\* values of every JSON kind, with strings that look like other values
JsonValues ==
  {JNull, JBool(TRUE), JNum(1), JNum(0 - 12), JStr(<<"1">>), JStr(<<"a", "\"">>),
   JArr(<<JNum(1), JStr(<<>>)>>), ValueA1}

\* expires_in_minutes ? new Date(Date.now() + expires_in_minutes * 60 * 1000).toISOString() : null
ExpiresAt(expires_in_minutes) ==
  IF NumOrNull(expires_in_minutes) = NULL THEN NULL
  ELSE Some(ToISOString(now + expires_in_minutes[1]))

ContextRows(rows, session_id, key) ==
  {c \in rows : c.session_id = session_id /\ c.key = key}

\* mutant: INSERT OR IGNORE, an existing entry is kept as it is
ContextUpsertIgnore(rows, session_id, key, value, skill_name, expires_at) ==
  IF ContextRows(rows, session_id, key) # {} THEN rows
  ELSE rows \cup
       {[id |-> NextId(rows), session_id |-> session_id, key |-> key,
         value |-> value, skill_name |-> skill_name, expires_at |-> expires_at,
         created_at |-> CurrentTimestamp(now)]}

\* mutant: the update keeps the old expiry when the new call brings none
ContextUpsertKeepsExpiry(rows, session_id, key, value, skill_name, expires_at) ==
  IF ContextRows(rows, session_id, key) # {}
  THEN {IF c.session_id = session_id /\ c.key = key
        THEN [c EXCEPT !.value = value, !.skill_name = skill_name,
                       !.expires_at = IF expires_at = NULL THEN @ ELSE expires_at]
        ELSE c : c \in rows}
  ELSE rows \cup
       {[id |-> NextId(rows), session_id |-> session_id, key |-> key,
         value |-> value, skill_name |-> skill_name, expires_at |-> expires_at,
         created_at |-> CurrentTimestamp(now)]}

\* INSERT INTO context (session_id, key, value, skill_name, expires_at) ...
\* ON CONFLICT(session_id, key) DO UPDATE SET value, skill_name, expires_at
ContextUpsert(rows, session_id, key, value, skill_name, expires_at) ==
  IF ContextRows(rows, session_id, key) # {}
  THEN {IF c.session_id = session_id /\ c.key = key
        THEN [c EXCEPT !.value = value, !.skill_name = skill_name,
                       !.expires_at = expires_at]
        ELSE c : c \in rows}
  ELSE rows \cup
       {[id |-> NextId(rows), session_id |-> session_id, key |-> key,
         value |-> value, skill_name |-> skill_name, expires_at |-> expires_at,
         created_at |-> CurrentTimestamp(now)]}

contextSet(session_id, key, value, skill_name, expires_in_minutes) ==
  /\ ContextRows(context, session_id, key) = {} => NextId(context) <= MaxContextId
  /\ context' = ContextUpsert(context, session_id, key, JSONStringify(value),
                              StrOrNull(skill_name), ExpiresAt(expires_in_minutes))
  /\ ret' = [op |-> "context_set",
             args |-> [session_id |-> session_id, key |-> key, value |-> value,
                       skill_name |-> skill_name,
                       expires_in_minutes |-> expires_in_minutes],
             result |-> [success |-> TRUE, key |-> key]]
  /\ UNCHANGED <<now, skills, skill_usage, failures, memory>>
  /\ Engine

\* expires_at IS NOT NULL AND expires_at < CURRENT_TIMESTAMP
IsPurged(c) ==
  c.expires_at # NULL /\ TextLess(c.expires_at[1], CurrentTimestamp(now))

\* DELETE FROM context WHERE expires_at IS NOT NULL AND expires_at < CURRENT_TIMESTAMP
PurgeExpired(rows) == {c \in rows : ~IsPurged(c)}

\* mutant: the stored text is returned as it is, without JSON.parse
StoredValueRaw(text) == JStr(text)

\* try { JSON.parse(result.value) } catch { result.value }
StoredValue(text) ==
  IF JSONParse(text).ok THEN JSONParse(text).value ELSE JStr(text)

contextGet(session_id, key) ==
  /\ context' = PurgeExpired(context)
  /\ ret' = [op |-> "context_get",
             args |-> [session_id |-> session_id, key |-> key],
             result |->
               IF ContextRows(context', session_id, key) = {}
               THEN [found |-> FALSE, value |-> JNull]
               ELSE [found |-> TRUE,
                     value |-> StoredValue(
                       (CHOOSE c \in ContextRows(context', session_id, key) : TRUE).value)]]
  /\ UNCHANGED <<now, skills, skill_usage, failures, memory>>
  /\ Engine

\* every order of the rows ORDER BY created_at DESC allows
NewestFirst(R) ==
  {q \in [1..Cardinality(R) -> R] :
     /\ \A i, j \in 1..Cardinality(R) : i # j => q[i] # q[j]
     /\ \A i, j \in 1..Cardinality(R) :
          i < j => ~TextLess(q[i].created_at, q[j].created_at)}

contextList(session_id) ==
  /\ context' = PurgeExpired(context)
  /\ \E rows \in NewestFirst({c \in context' : c.session_id = session_id}) :
       ret' = [op |-> "context_list", args |-> [session_id |-> session_id],
               result |-> [rows |-> rows]]
  /\ UNCHANGED <<now, skills, skill_usage, failures, memory>>
  /\ Engine

\* session_id?: string of contextClear
ClearSessions == {NULL, Some(""), Some("s1"), Some("s2")}

\* mutant: DELETE FROM context, whatever the session id
contextClearRowsAll(session_id) == {}

\* if (session_id) DELETE FROM context WHERE session_id = ? else DELETE FROM context
contextClearRows(session_id) ==
  IF StrOrNull(session_id) = NULL THEN {}
  ELSE {c \in context : c.session_id # session_id[1]}

contextClear(session_id) ==
  /\ context' = contextClearRows(session_id)
  /\ ret' = [op |-> "context_clear", args |-> [session_id |-> session_id],
             result |-> [success |-> TRUE,
                         cleared |-> Cardinality(context \ contextClearRows(session_id))]]
  /\ UNCHANGED <<now, skills, skill_usage, failures, memory>>
  /\ Engine

\* keys?: string[] of contextShare
KeyLists == {NULL, Some(<<>>), Some(<<"k1">>), Some(<<"k2", "k2">>)}

\* mutant: the keys argument is not used, every entry of the session is selected
ShareEntriesAll(from_session, keys) == {c \in context : c.session_id = from_session}

\* the entries contextShare selects: key IN (...) when keys is given and
\* not empty, every entry of the session otherwise
ShareEntries(from_session, keys) ==
  IF keys # NULL /\ Len(keys[1]) > 0
  THEN {c \in context :
          c.session_id = from_session /\ \E i \in 1..Len(keys[1]) : c.key = keys[1][i]}
  ELSE {c \in context : c.session_id = from_session}

\* for (const entry of entries) INSERT INTO context ... ON CONFLICT DO UPDATE
\* with (to_session, entry.key, entry.value, entry.skill_name, entry.expires_at)
RECURSIVE ShareUpserts(_, _, _)
ShareUpserts(rows, to_session, entries) ==
  IF entries = <<>> THEN rows
  ELSE ShareUpserts(ContextUpsert(rows, to_session, Head(entries).key, Head(entries).value,
                                  Head(entries).skill_name, Head(entries).expires_at),
                    to_session, Tail(entries))

contextShare(from_session, to_session, keys) ==
  /\ \E entries \in RowOrders(ShareEntries(from_session, keys)) :
       context' = ShareUpserts(context, to_session, entries)
  /\ \A c \in context' : c.id <= MaxSharedId
  /\ ret' = [op |-> "context_share",
             args |-> [from_session |-> from_session, to_session |-> to_session,
                       keys |-> keys],
             result |-> [success |-> TRUE,
                         shared |-> Cardinality(ShareEntries(from_session, keys))]]
  /\ UNCHANGED <<now, skills, skill_usage, failures, memory>>
  /\ Engine

----------------------------------------------------------------------------
(* Initial state: a fresh database, no call made yet *)

Init ==
  /\ now = StartTime
  /\ skills = {}
  /\ skill_usage = {}
  /\ failures = {}
  /\ memory = {}
  /\ context = {}
  /\ ret = [op |-> "none", args |-> NoArgs, result |-> [none |-> TRUE]]
  /\ db = NoHandle
  /\ memory_fts = {}
  /\ failures_fts = {}
  /\ pc = Idle
  /\ peer = Idle

UsageIds == 1..MaxUsages

NextSkills ==
  \/ \E name \in SkillNames, version \in Versions, source \in Sources,
        project_path \in RegisterPaths, installed_by \in Installers :
       skillRegister(name, version, source, project_path, installed_by)
  \/ \E skill_name \in SkillNames, project_path \in UsagePaths :
       skillUsageStart(skill_name, project_path)
  \/ \E usage_id \in UsageIds, success \in BOOLEAN, d \in UsageEndDetails :
       skillUsageEnd(usage_id, success, d.outcome, d.tokens_used, d.notes)
  \/ \E project_type \in ProjectTypes, limit \in Limits :
       skillRecommend(project_type, limit)

SpecSkills == Init /\ [][NextSkills]_vars

\* the step is a call of op (every call sets ret; only Tick, which leaves ret
\* alone, moves the clock)
Called(op) == now' = now /\ ret'.op = op

----------------------------------------------------------------------------
(* Properties of the skill registry and usage tracker *)

UsagesOf(name) == {u \in skill_usage : u.skill_name = name}
CompletedOf(name) == {u \in UsagesOf(name) : u.completed_at # NULL}

\* C1: each usage record contributes at most one increment to its skill's
\* use_count, so use_count equals the number of distinct usage records of
\* the skill that have been ended.
C1_UseCountCountsEndedUsages ==
  \A s \in skills : s.use_count = Cardinality(CompletedOf(s.name))

\* C7: completed is terminal: once usage_end has completed a usage record, no
\* later operation changes its success, outcome, tokens_used, notes or
\* completed_at.
C7_CompletedIsTerminal ==
  [][\A u \in skill_usage : u.completed_at # NULL => u \in skill_usage']_vars

RecommendRows == ret.result.rows
RowIndexes == 1..Len(RecommendRows)

\* C8: for every skill returned by recommend, success_rate is the number of
\* its completed usages with success = true divided by the number of its
\* completed usages (0 when there is none), and usage_count is the number of
\* its usage records.  Stated for the calls made without a project_type.
C8_RateIsMeanOverCompleted ==
  (ret.op = "skill_recommend" /\ TextOrNull(ret.args.project_type) = NULL) =>
    \A i \in RowIndexes :
      LET row == RecommendRows[i]
          done == CompletedOf(row.skill.name)
      IN  /\ RatEq(row.success_rate,
                   IF done = {} THEN <<0, 1>>
                   ELSE <<Cardinality({u \in done : u.success = Some(1)}),
                          Cardinality(done)>>)
          /\ row.usage_count = Cardinality(UsagesOf(row.skill.name))

\* C9: the list returned by recommend is sorted by success_rate descending,
\* ties broken by usage_count descending, and has at most limit (default 5)
\* elements; so a skill with the higher success_rate ranks first even when
\* it has fewer usages.
C9_RecommendSortedAndLimited ==
  ret.op = "skill_recommend" =>
    /\ \A i, j \in RowIndexes :
         i < j =>
           \/ RatLess(RecommendRows[j].success_rate, RecommendRows[i].success_rate)
           \/ /\ RatEq(RecommendRows[i].success_rate, RecommendRows[j].success_rate)
              /\ RecommendRows[i].usage_count >= RecommendRows[j].usage_count
    /\ Len(RecommendRows) <= (IF ret.args.limit = NULL THEN DefaultLimit
                              ELSE ret.args.limit[1])

\* a recommend call without project_type returned two skills, the first with
\* success_rate 1 and fewer usages than the second, whose success_rate is 1/2
C9_Witness ==
  /\ ret.op = "skill_recommend"
  /\ ret.args.project_type = NULL
  /\ Len(RecommendRows) = 2
  /\ RatEq(RecommendRows[1].success_rate, <<1, 1>>)
  /\ RatEq(RecommendRows[2].success_rate, <<1, 2>>)
  /\ RecommendRows[1].usage_count < RecommendRows[2].usage_count

\* C10: a skill with no usage record is never returned by recommend, and with
\* a project_type every returned skill has a usage record whose project_path
\* contains project_type as a substring.
C10_RecommendedSkillsHaveUsage ==
  ret.op = "skill_recommend" =>
    \A i \in RowIndexes :
      /\ UsagesOf(RecommendRows[i].skill.name) # {}
      /\ TextOrNull(ret.args.project_type) # NULL =>
           \E u \in UsagesOf(RecommendRows[i].skill.name) :
             /\ u.project_path # NULL
             /\ Contains(u.project_path[1], ret.args.project_type[1])

----------------------------------------------------------------------------
(* Failure ledger: specification and properties *)

NextFailures ==
  \/ \E error_pattern \in ErrorPatterns, error_message \in ErrorMessages,
        solution \in Solutions, skill_name \in FailureSkills,
        project_path \in FailurePaths :
       failureRecord(error_pattern, error_message, solution, skill_name, project_path)
  \/ \E id \in FailureIds, solution \in UpdateSolutions : failureUpdate(id, solution)
  \/ \E id \in FailureIds : failureDelete(id)
  \/ Tick

SpecFailures == Init /\ [][NextFailures]_vars

\* the row of a pattern, in a table that holds one
RowOf(rows, error_pattern) == CHOOSE f \in rows : f.error_pattern = error_pattern

\* C3: the failures table holds at most one row per error_pattern; a record
\* of a new pattern adds one row with occurrence_count = 1, and a record of an
\* existing pattern adds no row, raises that row's occurrence_count by exactly
\* 1 and refreshes its last_seen_at.
C3_RecordDeduplicates ==
  [][/\ \A f, g \in failures' : f.error_pattern = g.error_pattern => f = g
     /\ Called("failure_record") =>
          LET p == ret'.args.error_pattern
          IN  IF FailuresWithPattern(p) = {}
              THEN /\ Cardinality(failures') = Cardinality(failures) + 1
                   /\ failures \subseteq failures'
                   /\ RowOf(failures', p).occurrence_count = 1
              ELSE /\ Cardinality(failures') = Cardinality(failures)
                   /\ {f.id : f \in failures'} = {f.id : f \in failures}
                   /\ RowOf(failures', p).occurrence_count =
                        RowOf(failures, p).occurrence_count + 1
                   /\ RowOf(failures', p).last_seen_at = CurrentTimestamp(now)
                   /\ \A f \in failures : f.error_pattern # p => f \in failures'
    ]_vars

\* a pattern recorded twice, the second time at a later minute: one row,
\* occurrence_count 2, last_seen_at later than created_at
C3_Witness ==
  /\ ret.op = "failure_record"
  /\ ret.result.failure.occurrence_count = 2
  /\ ret.result.failure.last_seen_at # ret.result.failure.created_at
  /\ Cardinality(failures) = 2

\* C5: a record of an existing pattern keeps the stored solution (error_message)
\* when the supplied one is absent or empty and replaces it when the supplied
\* one is non-empty.
C5_RecordCoalesces ==
  [][(Called("failure_record") /\ FailuresWithPattern(ret'.args.error_pattern) # {}) =>
       LET p == ret'.args.error_pattern
           s == ret'.args.solution
           m == ret'.args.error_message
       IN  /\ RowOf(failures', p).solution =
                (IF s = NULL \/ s = Some("") THEN RowOf(failures, p).solution ELSE s)
           /\ RowOf(failures', p).error_message =
                (IF m = NULL \/ m = Some("") THEN RowOf(failures, p).error_message ELSE m)
    ]_vars

\* record(p, solution = "fix1") then record(p) without a solution:
\* occurrence_count = 2 and solution = "fix1"
C5_Witness ==
  /\ ret.op = "failure_record"
  /\ ret.args.solution = NULL
  /\ ret.result.failure.error_pattern = "TypeError: x"
  /\ ret.result.failure.occurrence_count = 2
  /\ ret.result.failure.solution = Some("fix1")
  /\ ret.result.failure.error_message = NULL

----------------------------------------------------------------------------
(* Memory store: specification and properties *)

NextMemory ==
  \/ \E key \in MemoryKeys, content \in Contents, tags \in TagLists,
        scope \in Scopes, source \in MemorySources :
       memoryWrite(key, content, tags, scope, source)
  \/ \E key \in MemoryKeys : memoryDelete(key)
  \/ Tick

SpecMemory == Init /\ [][NextMemory]_vars

MemoryRow(rows, key) == CHOOSE m \in rows : m.key = key

\* the tags column holds the JSON text of the supplied tag list
TagsStored(column, tags) ==
  IF tags = NULL THEN column = NULL
  ELSE /\ column # NULL
       /\ JSONParse(column[1]).ok
       /\ JSONParse(column[1]).value = JArr([i \in 1..Len(tags[1]) |-> JStr(tags[1][i])])

\* C4: no two memory rows share a key; a write on an existing key leaves one
\* row for the key, replaces content, tags, scope and source with the supplied
\* (or default) values, leaves created_at unchanged and sets updated_at to the
\* time of the write.
C4_WriteUpserts ==
  [][/\ \A m, n \in memory' : m.key = n.key => m = n
     /\ (Called("memory_write") /\ \E m \in memory : m.key = ret'.args.key) =>
          LET a == ret'.args
              old == MemoryRow(memory, a.key)
              new == MemoryRow(memory', a.key)
          IN  /\ Cardinality({m \in memory' : m.key = a.key}) = 1
              /\ Cardinality(memory') = Cardinality(memory)
              /\ new.content = a.content
              /\ TagsStored(new.tags, a.tags)
              /\ new.scope = (IF a.scope = NULL THEN "global" ELSE a.scope[1])
              /\ new.source = (IF a.source = NULL THEN Some("manual") ELSE a.source)
              /\ new.created_at = old.created_at
              /\ new.updated_at = CurrentTimestamp(now)
    ]_vars

\* a key written a second time, a minute after the first write, with other
\* content: one row, created_at kept, updated_at later
C4_Witness ==
  /\ ret.op = "memory_write"
  /\ \E m \in memory :
       /\ m.key = ret.args.key
       /\ m.content = "c2"
       /\ m.created_at = CurrentTimestamp(StartTime)
       /\ m.updated_at = CurrentTimestamp(StartTime + 1)
       /\ Cardinality({n \in memory : n.key = m.key}) = 1

----------------------------------------------------------------------------
(* Context store: specifications and properties *)

NextContext ==
  \/ \E session_id \in Sessions, key \in ContextKeys, value \in ContextValues,
        skill_name \in ContextSkills, expires_in_minutes \in ExpiryMinutes :
       contextSet(session_id, key, value, skill_name, expires_in_minutes)
  \/ \E session_id \in Sessions, key \in ContextKeys : contextGet(session_id, key)
  \/ \E session_id \in Sessions : contextList(session_id)
  \/ Tick

SpecContext == Init /\ [][NextContext]_vars

\* values of every kind set and read back in one session, without expiry
NextRoundTrip ==
  \/ \E key \in ContextKeys, value \in JsonValues :
       contextSet("s1", key, value, NULL, NULL)
  \/ \E key \in ContextKeys : contextGet("s1", key)

SpecRoundTrip == Init /\ [][NextRoundTrip]_vars

\* the entry's expires_at is an instant earlier than the current time
Expired(c) == c.expires_at # NULL /\ InstantOf(c.expires_at[1]) < now

\* C2: when the entry (s, k) has an expires_at earlier than the current time,
\* get(s, k) returns absent and list(s) does not contain k.
C2_ExpiredEntriesAreNotRead ==
  [][/\ Called("context_get") =>
          ((\E c \in ContextRows(context, ret'.args.session_id, ret'.args.key) : Expired(c))
             => ~ret'.result.found)
     /\ Called("context_list") =>
          \A c \in context :
            (c.session_id = ret'.args.session_id /\ Expired(c)) =>
              \A i \in 1..Len(ret'.result.rows) : ret'.result.rows[i].key # c.key
    ]_vars

\* C6: set(s, k, v) followed by get(s, k) returns a value structurally equal
\* to v, for every JSON value v: the get that follows the set returns the
\* value set, and any get that finds the text of a value v returns v.
C6_ValueRoundTrips ==
  [][Called("context_get") =>
       /\ (/\ ret.op = "context_set"
           /\ ret.args.session_id = ret'.args.session_id
           /\ ret.args.key = ret'.args.key)
            => (ret'.result.found /\ ret'.result.value = ret.args.value)
       /\ \A c \in ContextRows(context', ret'.args.session_id, ret'.args.key) :
            \A v \in JsonValues :
              c.value = JSONStringify(v) => (ret'.result.found /\ ret'.result.value = v)
    ]_vars

\* get returned the object {"a": 1} that was set, while the other key holds
\* the string "1"
C6_Witness ==
  /\ ret.op = "context_get"
  /\ ret.result.found
  /\ ret.result.value = ValueA1
  /\ \E c \in context : c.value = <<"\"", "1", "\"">>

----------------------------------------------------------------------------
(* Re-registration of a skill that is in use *)

NextRegister ==
  \/ \E version \in NewVersions, source \in NewSources, project_path \in NewPaths,
        installed_by \in Installers :
       skillRegister("A", version, source, project_path, installed_by)
  \/ \E project_path \in UsagePaths : skillUsageStart("A", project_path)
  \/ \E usage_id \in UsageIds, d \in UsageEndDetails :
       skillUsageEnd(usage_id, TRUE, d.outcome, d.tokens_used, d.notes)
  \/ Tick

SpecRegister == Init /\ [][NextRegister]_vars

SkillNamed(rows, name) == CHOOSE s \in rows : s.name = name

\* C11: a register on a registered name leaves exactly one row for the name,
\* sets version, source and project_path to the supplied values (an absent or
\* empty project_path is stored as NULL) and leaves use_count, installed_at
\* and last_used_at unchanged; no step removes a skill or lowers its use_count.
C11_ReRegisterPreservesCounters ==
  [][/\ \A s, t \in skills' : s.name = t.name => s = t
     /\ \A s \in skills :
          \E t \in skills' : t.name = s.name /\ t.use_count >= s.use_count
     /\ (Called("skill_register") /\ HasSkill(ret'.args.name)) =>
          LET a == ret'.args
              old == SkillNamed(skills, a.name)
              new == SkillNamed(skills', a.name)
          IN  /\ Cardinality({s \in skills' : s.name = a.name}) = 1
              /\ Cardinality(skills') = Cardinality(skills)
              /\ new.version = a.version
              /\ new.source = a.source
              /\ new.project_path = TextOrNull(a.project_path)
              /\ new.use_count = old.use_count
              /\ new.installed_at = old.installed_at
              /\ new.last_used_at = old.last_used_at
              /\ ret'.result.skill = new
    ]_vars

\* a skill used once and registered again a minute after its installation,
\* with another version, source and project_path
C11_Witness ==
  /\ ret.op = "skill_register"
  /\ now = StartTime + 1
  /\ ret.args.version = "2.0"
  /\ ret.args.source = "github"
  /\ ret.args.project_path = Some(PathWeb)
  /\ ret.result.skill.version = "2.0"
  /\ ret.result.skill.use_count = 1
  /\ ret.result.skill.installed_at = CurrentTimestamp(StartTime)
  /\ ret.result.skill.last_used_at = Some(CurrentTimestamp(StartTime))

----------------------------------------------------------------------------
(* The multi-statement handlers, one statement at a time.  Every statement  *)
(* is its own implicit transaction (no handler opens one), so the call can *)
(* stop between two statements: the process is killed, or the next         *)
(* statement throws and the dispatcher's catch returns the error.  pc      *)
(* holds the call in progress with the tables as they were when it started *)
(* (before) and as the whole handler leaves them (after).                  *)

Tables == [skills |-> skills, skill_usage |-> skill_usage,
           failures |-> failures, context |-> context]

\* skillUsageStart, first statement: INSERT INTO skill_usage
UsageStartInsert(skill_name, project_path) ==
  /\ pc = Idle
  /\ Cardinality(skill_usage) < MaxUsages
  /\ IF HasSkill(skill_name)
     THEN /\ skill_usage' = skill_usage \cup {NewUsage(skill_name, project_path)}
          /\ pc' = [op |-> "skill_usage_start",
                    args |-> [skill_name |-> skill_name, project_path |-> project_path],
                    usage_id |-> NextId(skill_usage),
                    before |-> Tables,
                    after |-> [Tables EXCEPT
                                 !.skill_usage = skill_usage \cup
                                                   {NewUsage(skill_name, project_path)},
                                 !.skills = StampLastUsed(skill_name)]]
          /\ ret' = ret
     ELSE /\ UNCHANGED <<skill_usage, pc>>
          /\ ret' = [op |-> "skill_usage_start",
                     args |-> [skill_name |-> skill_name, project_path |-> project_path],
                     result |-> [error |-> "FOREIGN KEY constraint failed"]]
  /\ UNCHANGED <<now, skills, failures, memory, context>>
  /\ Statement

\* skillUsageStart, second statement: UPDATE skills SET last_used_at; return
UsageStartStamp ==
  /\ pc.op = "skill_usage_start"
  /\ skills' = StampLastUsed(pc.args.skill_name)
  /\ ret' = [op |-> pc.op, args |-> pc.args,
             result |-> [success |-> TRUE, usage_id |-> pc.usage_id]]
  /\ pc' = Idle
  /\ UNCHANGED <<now, skill_usage, failures, memory, context>>
  /\ Statement

\* skillUsageEnd, first statement: UPDATE skill_usage ... WHERE id = ?
UsageEndUpdate(usage_id, success, outcome, tokens_used, notes) ==
  /\ pc = Idle
  /\ \A s \in skills : s.use_count < MaxUseCount
  /\ skill_usage' = CompleteUsage(usage_id, success, outcome, tokens_used, notes)
  /\ pc' = [op |-> "skill_usage_end",
            args |-> [usage_id |-> usage_id, success |-> success, outcome |-> outcome,
                      tokens_used |-> tokens_used, notes |-> notes],
            before |-> Tables,
            after |-> [Tables EXCEPT
                         !.skill_usage = CompleteUsage(usage_id, success, outcome,
                                                       tokens_used, notes),
                         !.skills = CountUsage(usage_id)]]
  /\ UNCHANGED <<now, skills, failures, memory, context, ret>>
  /\ Statement

\* skillUsageEnd, the SELECT and the UPDATE skills SET use_count; return
UsageEndCount ==
  /\ pc.op = "skill_usage_end"
  /\ skills' = CountUsage(pc.args.usage_id)
  /\ ret' = [op |-> pc.op, args |-> pc.args, result |-> [success |-> TRUE]]
  /\ pc' = Idle
  /\ UNCHANGED <<now, skill_usage, failures, memory, context>>
  /\ Statement

\* failureRecord, first statement: SELECT ... WHERE error_pattern = ?
FailureLookup(error_pattern, error_message, solution, skill_name, project_path) ==
  /\ pc = Idle
  /\ \A f \in FailuresWithPattern(error_pattern) : f.occurrence_count < MaxOccurrence
  /\ FailuresWithPattern(error_pattern) = {} => NextId(failures) <= MaxFailureId
  /\ pc' = [op |-> "failure_record",
            args |-> [error_pattern |-> error_pattern, error_message |-> error_message,
                      solution |-> solution, skill_name |-> skill_name,
                      project_path |-> project_path],
            existing |-> IF FailuresWithPattern(error_pattern) = {} THEN NULL
                         ELSE Some(FailureByPattern(failures, error_pattern).id),
            before |-> Tables,
            after |-> [Tables EXCEPT
                         !.failures = failureRecordRows(error_pattern, error_message,
                                                        solution, skill_name, project_path)]]
  /\ UNCHANGED <<now, skills, skill_usage, failures, memory, context, ret>>
  /\ Statement

\* failureRecord, second statement: the UPDATE of the row found or the
\* INSERT of a new one; return
FailureWrite ==
  /\ pc.op = "failure_record"
  /\ failures' =
       IF pc.existing # NULL
       THEN {IF f.id = pc.existing[1]
             THEN BumpFailure(f, pc.args.error_message, pc.args.solution) ELSE f :
               f \in failures}
       ELSE failures \cup
              {NewFailure(pc.args.error_pattern, pc.args.error_message, pc.args.solution,
                          pc.args.skill_name, pc.args.project_path)}
  /\ ret' = [op |-> pc.op, args |-> pc.args,
             result |-> [success |-> TRUE,
                         failure |-> FailureByPattern(failures', pc.args.error_pattern)]]
  /\ pc' = Idle
  /\ UNCHANGED <<now, skills, skill_usage, memory, context>>
  /\ Statement

\* contextShare, the SELECT of the entries to copy; it returns at once when
\* there is none
ShareSelect(from_session, to_session, keys) ==
  /\ pc = Idle
  /\ \E entries \in RowOrders(ShareEntries(from_session, keys)) :
       /\ \A c \in ShareUpserts(context, to_session, entries) : c.id <= MaxSharedId
       /\ IF entries = <<>>
          THEN /\ pc' = pc
               /\ ret' = [op |-> "context_share",
                          args |-> [from_session |-> from_session,
                                    to_session |-> to_session, keys |-> keys],
                          result |-> [success |-> TRUE, shared |-> 0]]
          ELSE /\ pc' = [op |-> "context_share",
                         args |-> [from_session |-> from_session,
                                   to_session |-> to_session, keys |-> keys],
                         entries |-> entries, copied |-> 0,
                         before |-> Tables,
                         after |-> [Tables EXCEPT
                                      !.context = ShareUpserts(context, to_session, entries)]]
               /\ ret' = ret
  /\ UNCHANGED <<now, skills, skill_usage, failures, memory, context>>
  /\ Statement

\* contextShare, one turn of the loop: the upsert of the next entry; return
\* after the last one
ShareUpsert ==
  /\ pc.op = "context_share"
  /\ LET entry == pc.entries[pc.copied + 1]
     IN  context' = ContextUpsert(context, pc.args.to_session, entry.key, entry.value,
                                  entry.skill_name, entry.expires_at)
  /\ IF pc.copied + 1 = Len(pc.entries)
     THEN /\ pc' = Idle
          /\ ret' = [op |-> pc.op, args |-> pc.args,
                     result |-> [success |-> TRUE, shared |-> Len(pc.entries)]]
     ELSE /\ pc' = [pc EXCEPT !.copied = pc.copied + 1]
          /\ ret' = ret
  /\ UNCHANGED <<now, skills, skill_usage, failures, memory>>
  /\ Statement

\* the call in progress ends before its next statement has run
Stop ==
  /\ pc # Idle
  /\ pc' = Idle
  /\ ret' = [op |-> pc.op, args |-> pc.args, result |-> [error |-> "stopped"]]
  /\ UNCHANGED <<now, skills, skill_usage, failures, memory, context,
                 db, memory_fts, failures_fts, peer>>

NextAtomic ==
  \/ \E version \in Versions, source \in Sources, project_path \in RegisterPaths,
        installed_by \in Installers :
       skillRegister("A", version, source, project_path, installed_by)
  \/ \E project_path \in UsagePaths : UsageStartInsert("A", project_path)
  \/ UsageStartStamp
  \/ \E usage_id \in UsageIds, d \in UsageEndDetails :
       UsageEndUpdate(usage_id, TRUE, d.outcome, d.tokens_used, d.notes)
  \/ UsageEndCount
  \/ \E solution \in {NULL, Some("fix1")} :
       FailureLookup("ENOENT", NULL, solution, NULL, NULL)
  \/ FailureWrite
  \/ \E key \in ContextKeys : contextSet("s1", key, JStr(<<"x">>), NULL, NULL)
  \/ \E keys \in KeyLists : ShareSelect("s1", "s2", keys)
  \/ ShareUpsert
  \/ Stop

SpecAtomic == Init /\ [][NextAtomic]_vars

\* a call that runs all its statements leaves the tables as the handler
\* run in one step does
StatementsMakeTheHandler ==
  [][(pc # Idle /\ pc' = Idle /\ "success" \in DOMAIN ret'.result) =>
       [skills |-> skills', skill_usage |-> skill_usage',
        failures |-> failures', context |-> context'] = pc.after]_vars

\* C12: a multi-statement operation that fails or stops between its
\* statements leaves the tables either as they were before the call or as
\* the completed call leaves them.
C12_StoppedCallIsAllOrNothing ==
  [][(pc # Idle /\ pc' = Idle /\ "error" \in DOMAIN ret'.result) =>
       \/ Tables = pc.before
       \/ Tables = pc.after]_vars

----------------------------------------------------------------------------
(* Context store: purge, expiry, share *)

\* the purge of a read removes no entry that has no expires_at or whose
\* expires_at is not earlier than the time of the call
PurgeKeepsLiveEntries ==
  [][(Called("context_get") \/ Called("context_list")) =>
       \A c \in context : ~Expired(c) => c \in context']_vars

\* C13: when get or list returns, the context store holds no entry, of any
\* session, whose expires_at is set and earlier than the time of the call, and
\* the purge has removed no entry without expires_at or with a later one.
C13_ReadsPurgeEveryExpiredEntry ==
  [][(Called("context_get") \/ Called("context_list")) =>
       /\ \A c \in context' : ~(c.expires_at # NULL /\ InstantOf(c.expires_at[1]) < now)
       /\ \A c \in context : ~Expired(c) => c \in context']_vars

\* C14: a set called with expires_in_minutes (any number, 0 and negative ones
\* included) stores expires_at = time of the write + expires_in_minutes
\* minutes, a set called without it stores no expiry, and a read changes the
\* expires_at of no entry.
C14_ExpiryIsComputedAtWrite ==
  [][/\ Called("context_set") =>
          \A c \in ContextRows(context', ret'.args.session_id, ret'.args.key) :
            IF ret'.args.expires_in_minutes = NULL
            THEN c.expires_at = NULL
            ELSE /\ c.expires_at # NULL
                 /\ InstantOf(c.expires_at[1]) = now + ret'.args.expires_in_minutes[1]
     /\ (Called("context_get") \/ Called("context_list")) => context' \subseteq context
    ]_vars

----------------------------------------------------------------------------
(* Memory store: reads *)

NextMemoryRead ==
  \/ \E key \in MemoryKeys, tags \in {NULL, Some(<< <<"t">> >>)}, scope \in WriteScopes :
       memoryWrite(key, "c1", tags, scope, NULL)
  \/ \E key \in MemoryKeys : memoryDelete(key)
  \/ \E key \in MemoryKeys : memoryRead(key)
  \/ \E scope \in ListScopes, prefix \in Prefixes, limit \in MemoryLimits :
       memoryList(scope, prefix, limit)
  \/ \E query \in Queries, scope \in ListScopes, limit \in MemoryLimits :
       memorySearch(query, scope, limit)

SpecMemoryRead == Init /\ [][NextMemoryRead]_vars

ReturnedRows == {ret.result.rows[i] : i \in 1..Len(ret.result.rows)}

\* C15 as stated: for every scope s, every entry returned by list(scope = s)
\* and by search(query, scope = s) has scope s.
C15_EveryScopeFilters ==
  (ret.op \in {"memory_list", "memory_search"} /\ ret.args.scope # NULL) =>
    \A m \in ReturnedRows : m.scope = ret.args.scope[1]

\* C15: for every scope s other than the empty string, every entry returned
\* by list(scope = s) and by search(query, scope = s) has scope s; so
\* list(scope = "project:x") returns no entry of scope "global".
C15_NonEmptyScopeFilters ==
  (ret.op \in {"memory_list", "memory_search"} /\ StrOrNull(ret.args.scope) # NULL) =>
    \A m \in ReturnedRows : m.scope = ret.args.scope[1]

\* a search with scope "project:x" returned the entry of that scope while the
\* store also holds a matching entry of scope "global"
C15_Witness ==
  /\ ret.op = "memory_search"
  /\ ret.args.scope = Some("project:x")
  /\ ret.args.query = "tip"
  /\ ret.args.limit = NULL
  /\ Len(ret.result.rows) = 1
  /\ \E m \in memory : m.scope = "global"

\* C16: delete(key) returns deleted = true exactly when a row with the key
\* existed just before the call, returns without error when there is none,
\* removes that row and no other, and a read of the key after it returns
\* absent.
C16_DeleteReportsWhatItRemoved ==
  [][/\ Called("memory_delete") =>
          /\ ret'.result.success
          /\ ret'.result.deleted = (\E m \in memory : m.key = ret'.args.key)
          /\ memory' = {m \in memory : m.key # ret'.args.key}
          /\ memoryReadRow(memory', ret'.args.key) = NULL
     /\ (Called("memory_read") /\ ret.op = "memory_delete"
           /\ ret.args.key = ret'.args.key) => ret'.result.entry = NULL
    ]_vars

\* a delete of a stored key, reported as deleted, with the other key's row
\* still in the table
C16_Witness ==
  /\ ret.op = "memory_delete"
  /\ ret.result.deleted
  /\ ret.args.key = "tip:a"
  /\ \E m \in memory : m.key = "tip:b"

\* a delete of a key that is not stored, reported as not deleted
C16_WitnessMissing ==
  /\ ret.op = "memory_delete"
  /\ ~ret.result.deleted
  /\ memory # {}

----------------------------------------------------------------------------
(* Skill usage: an end without a usage record *)

\* C17: usage_end with a usage_id that matches no usage record returns a
\* result that is no error and changes nothing: no usage record is created
\* or modified and no skill's use_count or last_used_at changes.
C17_EndOfUnknownUsageChangesNothing ==
  [][(Called("skill_usage_end")
        /\ \A u \in skill_usage : u.id # ret'.args.usage_id) =>
       /\ ret'.result = [success |-> TRUE]
       /\ skill_usage' = skill_usage
       /\ skills' = skills]_vars

\* usage_end was called with an id no record has, while a skill whose rowid
\* is that id and a usage record of another id exist
C17_Witness ==
  /\ ret.op = "skill_usage_end"
  /\ \A u \in skill_usage : u.id # ret.args.usage_id
  /\ skill_usage # {}
  /\ \E s \in skills : s.id = ret.args.usage_id

----------------------------------------------------------------------------
(* Storage handle *)

NextDatabase ==
  \/ getDatabase
  \/ closeDatabase
  \/ \E key \in MemoryKeys, content \in Contents : memoryWrite(key, content, NULL, NULL, NULL)
  \/ \E key \in MemoryKeys : memoryRead(key)

SpecDatabase == Init /\ [][NextDatabase]_vars

\* C18: the storage handle is a singleton: at most one connection is open at
\* a time; getDatabase while open returns the same handle, opens nothing and
\* does not run schema creation again; closeDatabase while closed changes
\* nothing; getDatabase while closed opens a connection never used before and
\* runs schema creation, with the rows of the tables as they were.
C18_HandleIsSingleton ==
  [][/\ Cardinality(db'.live) <= 1
     /\ db'.live = (IF db'.handle = NULL THEN {} ELSE {db'.handle[1]})
     /\ Called("getDatabase") =>
          /\ ret'.result.handle = db'.handle
          /\ db'.handle # NULL
          /\ IF db.handle # NULL
             THEN db' = db
             ELSE /\ db'.handle[1] \notin 1..db.opens
                  /\ db'.opens = db.opens + 1
                  /\ db'.schema_runs = db.schema_runs + 1
                  /\ memory' = memory
     /\ Called("closeDatabase") =>
          /\ db'.handle = NULL
          /\ db.handle = NULL => db' = db
          /\ memory' = memory
    ]_vars

\* getDatabase called after a close: the second connection, schema creation
\* run twice, the rows written through the first connection still there
C18_Witness ==
  /\ ret.op = "getDatabase"
  /\ ret.result.handle = Some(2)
  /\ db.live = {2}
  /\ db.schema_runs = 2
  /\ memory # {}

\* closeDatabase called while no handle was open
C18_WitnessClosedTwice ==
  /\ ret.op = "closeDatabase"
  /\ db = [handle |-> NULL, opens |-> 1, live |-> {}, schema_runs |-> 1]

----------------------------------------------------------------------------
(* Full-text indexes *)

NextIndex ==
  \/ \E key \in MemoryKeys, content \in Contents, tags \in {NULL, Some(<< <<"t">> >>)} :
       memoryWrite(key, content, tags, NULL, NULL)
  \/ \E key \in MemoryKeys : memoryDelete(key)
  \/ \E query \in Queries : memorySearch(query, NULL, NULL)
  \/ \E solution \in {NULL, Some("fix1")} :
       failureRecord("ENOENT", NULL, solution, NULL, NULL)
  \/ \E id \in FailureIds : failureUpdate(id, "fix1")
  \/ \E id \in FailureIds : failureDelete(id)

SpecIndex == Init /\ [][NextIndex]_vars

\* C19: each full-text index holds one entry for every row of its table and
\* none for a row that is gone, every entry holds the row's current values of
\* the indexed columns, and a search returns only rows that are in the table
\* and whose current values match the query.
C19_IndexFollowsTable ==
  /\ memory_fts = {MemoryFtsEntry(m) : m \in memory}
  /\ failures_fts = {FailuresFtsEntry(f) : f \in failures}
  /\ \A e, g \in memory_fts : e.rowid = g.rowid => e = g
  /\ \A e, g \in failures_fts : e.rowid = g.rowid => e = g
  /\ ret.op = "memory_search" =>
       \A m \in ReturnedRows : m \in memory /\ Matches(MemoryFtsEntry(m), ret.args.query)

\* a search for the first content finds nothing after every row that held it
\* was overwritten or deleted, while the failure row has been updated twice
C19_Witness ==
  /\ ret.op = "memory_search"
  /\ ret.args.query = "c1"
  /\ ret.result.rows = <<>>
  /\ \E m \in memory : m.content = "c2" /\ m.id = 1
  /\ \E f \in failures : f.occurrence_count = 2 /\ f.solution = Some("fix1")
  /\ \E e \in failures_fts : e.solution = Some("fix1")

----------------------------------------------------------------------------
(* Context share *)

\* the entries set before a share: a plain one, and one with a skill and an expiry
SharePayloads ==
  {[value |-> JStr(<<"x">>), skill_name |-> NULL, expires_in_minutes |-> NULL],
   [value |-> ValueA1, skill_name |-> Some("A"), expires_in_minutes |-> Some(1)]}

NextShare ==
  \/ \E session_id \in Sessions, key \in ContextKeys, e \in SharePayloads :
       contextSet(session_id, key, e.value, e.skill_name, e.expires_in_minutes)
  \/ \E from_session \in Sessions, to_session \in Sessions, keys \in KeyLists :
       contextShare(from_session, to_session, keys)

SpecShare == Init /\ [][NextShare]_vars

\* the key is among the keys of a share (every key when keys is absent or empty)
KeySelected(keys, key) ==
  keys = NULL \/ keys[1] = <<>> \/ \E i \in 1..Len(keys[1]) : keys[1][i] = key

\* C20: share(from, to, keys) with from # to leaves the entries of the source
\* session as they are; for each selected key the source holds, the
\* destination has afterwards exactly one entry, with the source's value,
\* skill_name and expires_at; the other entries of the destination are
\* unchanged; the result is the number of entries copied.
C20_ShareCopiesAndKeepsSource ==
  [][(Called("context_share") /\ ret'.args.from_session # ret'.args.to_session) =>
       LET from == ret'.args.from_session
           to == ret'.args.to_session
           picked == {c \in context :
                        c.session_id = from /\ KeySelected(ret'.args.keys, c.key)}
       IN  /\ {c \in context' : c.session_id = from} = {c \in context : c.session_id = from}
           /\ \A c \in picked :
                /\ Cardinality(ContextRows(context', to, c.key)) = 1
                /\ \A d \in ContextRows(context', to, c.key) :
                     /\ d.value = c.value
                     /\ d.skill_name = c.skill_name
                     /\ d.expires_at = c.expires_at
           /\ \A d \in context' :
                (d.session_id = to /\ \A c \in picked : c.key # d.key) => d \in context
           /\ \A c, d \in context' :
                (c.session_id = d.session_id /\ c.key = d.key) => c = d
           /\ Cardinality(context') =
                Cardinality(context) +
                  Cardinality({c \in picked : ContextRows(context, to, c.key) = {}})
           /\ ret'.result = [success |-> TRUE, shared |-> Cardinality(picked)]
    ]_vars

\* a share of both entries of s1 into s2, one of them with a skill and an
\* expiry
C20_Witness ==
  /\ ret.op = "context_share"
  /\ ret.args.from_session = "s1"
  /\ ret.args.to_session = "s2"
  /\ ret.result.shared = 2
  /\ Cardinality(context) = 4
  /\ \E d \in context :
       d.session_id = "s2" /\ d.skill_name = Some("A") /\ d.expires_at # NULL

----------------------------------------------------------------------------
(* Context clear *)

NextClear ==
  \/ \E session_id \in Sessions, key \in ContextKeys, value \in ContextValues :
       contextSet(session_id, key, value, NULL, NULL)
  \/ \E session_id \in ClearSessions : contextClear(session_id)
  \/ \E session_id \in Sessions : contextList(session_id)

SpecClear == Init /\ [][NextClear]_vars

\* C21 as stated: clear(s) with any session id s removes exactly the entries
\* of session s, clear without a session id removes every entry, and the
\* returned count is the number of entries removed.
C21_ClearRemovesTheSession ==
  [][Called("context_clear") =>
       /\ context' = (IF ret'.args.session_id = NULL THEN {}
                      ELSE {c \in context : c.session_id # ret'.args.session_id[1]})
       /\ ret'.result.cleared = Cardinality(context) - Cardinality(context')]_vars

\* C21: clear(s) with a session id s other than the empty string removes
\* exactly the entries of session s and leaves every other entry unchanged,
\* clear without a session id removes every entry, and in both cases the
\* returned count is the number of entries removed.
C21_ClearRemovesTheNamedSession ==
  [][(Called("context_clear") /\ ret'.args.session_id # Some("")) =>
       /\ context' = (IF ret'.args.session_id = NULL THEN {}
                      ELSE {c \in context : c.session_id # ret'.args.session_id[1]})
       /\ ret'.result = [success |-> TRUE,
                         cleared |-> Cardinality(context) - Cardinality(context')]]_vars

\* clear(s1) removed one entry and left the entry of s2 in the store
C21_Witness ==
  /\ ret.op = "context_clear"
  /\ ret.args.session_id = Some("s1")
  /\ ret.result.cleared = 1
  /\ \E c \in context : c.session_id = "s2"

----------------------------------------------------------------------------
(* Two server processes on one database file.  Each process runs its       *)
(* handlers one at a time; the statements of the two interleave, each in   *)
(* its own implicit transaction.  pc is the call in progress in this       *)
(* process, peer the one in the other process.                             *)

\* failureRecord in the other process, first statement: the SELECT
PeerFailureLookup(error_pattern, error_message, solution, skill_name, project_path) ==
  /\ peer = Idle
  /\ \A f \in FailuresWithPattern(error_pattern) : f.occurrence_count < MaxOccurrence
  /\ FailuresWithPattern(error_pattern) = {} => NextId(failures) <= MaxFailureId
  /\ peer' = [op |-> "failure_record",
              args |-> [error_pattern |-> error_pattern, error_message |-> error_message,
                        solution |-> solution, skill_name |-> skill_name,
                        project_path |-> project_path],
              existing |-> IF FailuresWithPattern(error_pattern) = {} THEN NULL
                           ELSE Some(FailureByPattern(failures, error_pattern).id)]
  /\ UNCHANGED <<now, skills, skill_usage, failures, memory, context, ret,
                 db, memory_fts, failures_fts, pc>>

\* failureRecord in the other process, second statement: the UPDATE of the
\* row found or the INSERT of a new one
PeerFailureWrite ==
  /\ peer # Idle
  /\ failures' =
       IF peer.existing # NULL
       THEN {IF f.id = peer.existing[1]
             THEN BumpFailure(f, peer.args.error_message, peer.args.solution) ELSE f :
               f \in failures}
       ELSE failures \cup
              {NewFailure(peer.args.error_pattern, peer.args.error_message,
                          peer.args.solution, peer.args.skill_name,
                          peer.args.project_path)}
  /\ failures_fts' = FailuresTriggers(failures_fts, failures, failures')
  /\ peer' = Idle
  /\ UNCHANGED <<now, skills, skill_usage, memory, context, ret, db, memory_fts, pc>>

NextConcurrent ==
  \/ \E error_pattern \in ErrorPatterns, solution \in {NULL, Some("fix1")} :
       FailureLookup(error_pattern, NULL, solution, NULL, NULL)
  \/ FailureWrite
  \/ \E error_pattern \in ErrorPatterns, solution \in {NULL, Some("fix1")} :
       PeerFailureLookup(error_pattern, NULL, solution, NULL, NULL)
  \/ PeerFailureWrite
  \/ \E id \in FailureIds : failureDelete(id)

SpecConcurrent == Init /\ [][NextConcurrent]_vars

\* C22: when two callers on the same database file record the same error
\* pattern and their statements interleave, the table still holds a single
\* row for the pattern: no interleaving leaves two rows with the same
\* error_pattern.
C22_ConcurrentRecordsKeepOneRow ==
  \A f, g \in failures : f.error_pattern = g.error_pattern => f = g

----------------------------------------------------------------------------
(* Context share with a list of keys *)

ListedKeys(keys) == {keys[1][i] : i \in 1..Len(keys[1])}

\* C23 as stated: when share is called with a keys argument, only destination
\* entries whose key is a member of keys are created or changed; with an
\* empty list nothing is copied and the returned count is 0.
C23_OnlyListedKeysAreCopied ==
  [][(Called("context_share") /\ ret'.args.keys # NULL) =>
       /\ \A d \in context' \ context :
            d.session_id = ret'.args.to_session /\ d.key \in ListedKeys(ret'.args.keys)
       /\ ret'.args.keys = Some(<<>>) => (context' = context /\ ret'.result.shared = 0)
    ]_vars

\* C23: when share is called with a keys argument that is not the empty
\* list, only destination entries whose key is a member of keys are created
\* or changed, and the returned count is the number of source entries with
\* such a key.
C23_OnlyListedKeysOfANonEmptyList ==
  [][(Called("context_share") /\ ret'.args.keys # NULL /\ ret'.args.keys # Some(<<>>)) =>
       /\ \A d \in context' \ context :
            d.session_id = ret'.args.to_session /\ d.key \in ListedKeys(ret'.args.keys)
       /\ ret'.result.shared =
            Cardinality({c \in context : /\ c.session_id = ret'.args.from_session
                                         /\ c.key \in ListedKeys(ret'.args.keys)})
    ]_vars

\* a share of k1 alone from a session that holds k1 and k2: the destination
\* has one entry, k1
C23_Witness ==
  /\ ret.op = "context_share"
  /\ ret.args = [from_session |-> "s1", to_session |-> "s2", keys |-> Some(<<"k1">>)]
  /\ ret.result.shared = 1
  /\ Cardinality({c \in context : c.session_id = "s1"}) = 2
  /\ {c.key : c \in {d \in context : d.session_id = "s2"}} = {"k1"}

----------------------------------------------------------------------------
(* Memory list by prefix *)

NextList ==
  \/ \E key \in MemoryKeys, content \in Contents : memoryWrite(key, content, NULL, NULL, NULL)
  \/ \E prefix \in ListPrefixes, limit \in MemoryLimits : memoryList(NULL, prefix, limit)
  \/ Tick

SpecList == Init /\ [][NextList]_vars

\* the result of a list is ordered by updated_at descending and has at most
\* limit (default 100) entries
ListOrderedAndLimited ==
  ret.op = "memory_list" =>
    /\ \A i, j \in 1..Len(ret.result.rows) :
         i < j => ~TextLess(ret.result.rows[i].updated_at, ret.result.rows[j].updated_at)
    /\ Len(ret.result.rows) <= OrDefault(ret.args.limit, 100)

\* C24: for every prefix p, with or without the characters % and _ and with
\* letters of either case, every entry returned by list(prefix = p) has a key
\* that literally starts with p, and the result is ordered by updated_at
\* descending and has at most limit entries.
C24_ListedKeysStartWithPrefix ==
  ret.op = "memory_list" =>
    /\ ret.args.prefix # NULL =>
         \A m \in ReturnedRows : StartsWith(Chars(m.key), Chars(ret.args.prefix[1]))
    /\ \A i, j \in 1..Len(ret.result.rows) :
         i < j => ~TextLess(ret.result.rows[i].updated_at, ret.result.rows[j].updated_at)
    /\ Len(ret.result.rows) <= OrDefault(ret.args.limit, 100)

----------------------------------------------------------------------------
(* Failure statistics (failureStats) *)

StatsSkills == {NULL, Some(""), Some("A"), Some("B")}
StatsSolutions == {NULL, Some("fix1")}

\* SELECT COUNT(*) FROM failures WHERE solution IS NOT NULL
WithSolution == Cardinality({f \in failures : f.solution # NULL})

\* SELECT * FROM failures ORDER BY occurrence_count DESC LIMIT 1: a row of the
\* highest count; the order among rows of equal count is not specified
MostCommon ==
  {f \in failures : \A g \in failures : g.occurrence_count <= f.occurrence_count}

\* SELECT skill_name, COUNT(*) FROM failures WHERE skill_name IS NOT NULL
\* GROUP BY skill_name, as the object bySkill
BySkill ==
  [name \in {f.skill_name[1] : f \in {g \in failures : g.skill_name # NULL}} |->
     Cardinality({f \in failures : f.skill_name = Some(name)})]

failureStats ==
  /\ \E most_common \in (IF failures = {} THEN {NULL} ELSE {Some(f) : f \in MostCommon}) :
       ret' = [op |-> "failure_stats", args |-> NoArgs,
               result |-> [total |-> Cardinality(failures),
                           with_solution |-> WithSolution,
                           most_common |-> most_common,
                           by_skill |-> BySkill]]
  /\ UNCHANGED <<now, skills, skill_usage, failures, memory, context>>
  /\ Engine

NextFailureStats ==
  \/ \E error_pattern \in ErrorPatterns, solution \in StatsSolutions,
        skill_name \in StatsSkills :
       failureRecord(error_pattern, NULL, solution, skill_name, NULL)
  \/ \E id \in FailureIds, solution \in UpdateSolutions : failureUpdate(id, solution)
  \/ \E id \in FailureIds : failureDelete(id)
  \/ failureStats

SpecFailureStats == Init /\ [][NextFailureStats]_vars

\* the skill names that have at least one failure row
SkillsWithFailures == {name \in {"A", "B"} : \E f \in failures : f.skill_name = Some(name)}

\* total is the number of rows, and by_skill holds exactly the skills with a
\* failure row, each with its row count
StatsTotalAndBySkill ==
  ret.op = "failure_stats" =>
    /\ ret.result.total = Cardinality(failures)
    /\ DOMAIN ret.result.by_skill = SkillsWithFailures
    /\ \A name \in SkillsWithFailures :
         ret.result.by_skill[name] =
           Cardinality({f \in failures : f.skill_name = Some(name)})

\* C25: after any sequence of record, update and delete calls, stats reports
\* total = the number of failure rows, with_solution = the number of rows whose
\* solution is a non-empty string (a row whose solution update set to "" is
\* not counted), and by_skill = exactly the skill names with at least one row,
\* each mapped to its row count.
C25_StatsCountNonEmptySolutions ==
  ret.op = "failure_stats" =>
    /\ ret.result.total = Cardinality(failures)
    /\ ret.result.with_solution =
         Cardinality({f \in failures : f.solution # NULL /\ f.solution # Some("")})
    /\ DOMAIN ret.result.by_skill = SkillsWithFailures
    /\ \A name \in SkillsWithFailures :
         ret.result.by_skill[name] =
           Cardinality({f \in failures : f.skill_name = Some(name)})

----------------------------------------------------------------------------
(* Referential integrity of usage records *)

\* C26: every usage record references a registered skill: usage_start for a
\* skill_name that was never registered fails with a constraint error, creates
\* no usage record and changes no skill; no operation deletes a skill, and in
\* every reachable state the skill_name of each usage record names an
\* existing skill.
C26_UsagesReferenceRegisteredSkills ==
  [][/\ \A u \in skill_usage' : \E s \in skills' : s.name = u.skill_name
     /\ \A s \in skills : \E t \in skills' : t.name = s.name
     /\ (Called("skill_usage_start") /\ ~HasSkill(ret'.args.skill_name)) =>
          /\ ret'.result = [error |-> "FOREIGN KEY constraint failed"]
          /\ skill_usage' = skill_usage
          /\ skills' = skills]_vars

\* a start for an unregistered skill was refused while usages of a registered
\* skill are on record
C26_Witness ==
  /\ ret.op = "skill_usage_start"
  /\ "error" \in DOMAIN ret.result
  /\ ~HasSkill(ret.args.skill_name)
  /\ skill_usage # {}

----------------------------------------------------------------------------
(* Skill statistics (skillStats) *)

\* mutant: the average is taken over every usage record
CompletedUsagesAll == skill_usage

\* FROM skill_usage WHERE success IS NOT NULL
CompletedUsages == {u \in skill_usage : u.success # NULL}

\* AVG(CASE WHEN success THEN 1.0 ELSE 0.0 END) over the completed usages,
\* NULL over none; successResult.rate || 0
SuccessRate ==
  IF CompletedUsages = {}
  THEN <<0, 1>>
  ELSE <<SuccessSum(CompletedUsages), Cardinality(CompletedUsages)>>

\* SELECT * FROM skills ORDER BY use_count DESC LIMIT 1: a row of the highest
\* count; the order among rows of equal count is not specified
MostUsed == {s \in skills : \A t \in skills : t.use_count <= s.use_count}

skillStats ==
  /\ \E most_used \in (IF skills = {} THEN {NULL} ELSE {Some(s) : s \in MostUsed}) :
       ret' = [op |-> "skill_stats", args |-> NoArgs,
               result |-> [total_skills |-> Cardinality(skills),
                           total_usages |-> Cardinality(skill_usage),
                           success_rate |-> SuccessRate,
                           most_used |-> most_used]]
  /\ UNCHANGED <<now, skills, skill_usage, failures, memory, context>>
  /\ Engine

NextSkillStats ==
  \/ \E name \in SkillNames : skillRegister(name, "1.0", "local", NULL, NULL)
  \/ \E skill_name \in SkillNames : skillUsageStart(skill_name, NULL)
  \/ \E usage_id \in UsageIds, success \in BOOLEAN :
       skillUsageEnd(usage_id, success, NULL, NULL, NULL)
  \/ skillStats

SpecSkillStats == Init /\ [][NextSkillStats]_vars

\* the usages that are no longer in state started
Completed == {u \in skill_usage : u.completed_at # NULL}

\* C27: skill stats reports success_rate = (completed usages with success =
\* true) / (completed usages) over all skills, usages still started being
\* ignored, and 0 when no usage is completed; total_usages = the number of
\* usage records; most_used = a skill of maximum use_count, absent when no
\* skill is registered.
C27_StatsOverCompletedUsages ==
  ret.op = "skill_stats" =>
    /\ IF Completed = {}
       THEN RatEq(ret.result.success_rate, <<0, 1>>)
       ELSE RatEq(ret.result.success_rate,
                  <<Cardinality({u \in Completed : u.success = Some(1)}),
                    Cardinality(Completed)>>)
    /\ ret.result.total_usages = Cardinality(skill_usage)
    /\ IF skills = {}
       THEN ret.result.most_used = NULL
       ELSE /\ ret.result.most_used # NULL
            /\ ret.result.most_used[1] \in skills
            /\ \A s \in skills : s.use_count <= ret.result.most_used[1].use_count

\* stats taken with a successful, a failed and a still started usage on record
C27_Witness ==
  /\ ret.op = "skill_stats"
  /\ \E u, v, w \in skill_usage :
       u.success = Some(1) /\ v.success = Some(0) /\ w.completed_at = NULL
  /\ RatEq(ret.result.success_rate, <<1, 2>>)

----------------------------------------------------------------------------
(* Context set on an existing entry *)

UpsertSkills == {NULL, Some(""), Some("A")}
UpsertExpiry == {NULL, Some(1)}

NextUpsert ==
  \/ \E key \in ContextKeys, value \in ContextValues, skill_name \in UpsertSkills,
        expires_in_minutes \in UpsertExpiry :
       contextSet("s1", key, value, skill_name, expires_in_minutes)
  \/ \E key \in ContextKeys : contextGet("s1", key)
  \/ Tick

SpecUpsert == Init /\ [][NextUpsert]_vars

\* C28: context set on an existing (session_id, key) keeps a single entry for
\* the pair, keeps its created_at, and replaces value, skill_name and
\* expires_at with those of the new call; a set without expires_in_minutes on
\* an entry that had an expiry removes the expiry, and the entry no longer
\* expires.
C28_SetReplacesTheEntry ==
  [][/\ (Called("context_set") /\
         ContextRows(context, ret'.args.session_id, ret'.args.key) # {}) =>
          LET a == ret'.args
              old == CHOOSE c \in context : c.session_id = a.session_id /\ c.key = a.key
              new == {c \in context' : c.session_id = a.session_id /\ c.key = a.key}
          IN  /\ Cardinality(new) = 1
              /\ {c \in context' : c \notin new} = context \ {old}
              /\ \A c \in new :
                   /\ c.id = old.id
                   /\ c.created_at = old.created_at
                   /\ c.value = JSONStringify(a.value)
                   /\ c.skill_name =
                        (IF a.skill_name = Some("") THEN NULL ELSE a.skill_name)
                   /\ c.expires_at =
                        (IF a.expires_in_minutes = NULL THEN NULL
                         ELSE Some(ToISOString(now + a.expires_in_minutes[1])))
     /\ Called("context_get") =>
          \A c \in context : c.expires_at = NULL => c \in context']_vars

\* an entry made at an earlier time was set again without an expiry
C28_Witness ==
  /\ ret.op = "context_set"
  /\ ret.args.expires_in_minutes = NULL
  /\ \E c \in context :
       /\ c.session_id = ret.args.session_id /\ c.key = ret.args.key
       /\ c.expires_at = NULL
       /\ c.value = JSONStringify(ret.args.value)
       /\ TextLess(c.created_at, CurrentTimestamp(now))

----------------------------------------------------------------------------
(* Fields a repeated failure record leaves alone *)

RecordSkills == {NULL, Some("A")}
RecordPaths == {NULL, Some("/p1")}

NextRecordFrame ==
  \/ \E error_pattern \in ErrorPatterns, skill_name \in RecordSkills,
        project_path \in RecordPaths :
       failureRecord(error_pattern, NULL, NULL, skill_name, project_path)
  \/ \E id \in FailureIds : failureDelete(id)
  \/ Tick

SpecRecordFrame == Init /\ [][NextRecordFrame]_vars

\* C29: failure record on an error_pattern that already has a row never
\* changes that row's id, skill_name, project_path or created_at, whatever
\* skill_name and project_path the new call supplies; the fields keep the
\* values of the first record of the pattern.
C29_RecordKeepsFirstRecordFields ==
  [][(Called("failure_record") /\ FailuresWithPattern(ret'.args.error_pattern) # {}) =>
       /\ Cardinality(failures') = Cardinality(failures)
       /\ \A f \in FailuresWithPattern(ret'.args.error_pattern) :
            \E g \in failures' :
              /\ g.id = f.id
              /\ g.error_pattern = f.error_pattern
              /\ g.skill_name = f.skill_name
              /\ g.project_path = f.project_path
              /\ g.created_at = f.created_at]_vars

\* a pattern was recorded again, at a later time, with another skill_name and
\* another project_path than its row holds
C29_Witness ==
  /\ ret.op = "failure_record"
  /\ ret.result.failure.occurrence_count = 2
  /\ ret.args.skill_name \notin {NULL, ret.result.failure.skill_name}
  /\ ret.args.project_path \notin {NULL, ret.result.failure.project_path}
  /\ ret.result.failure \in failures
  /\ TextLess(ret.result.failure.created_at, ret.result.failure.last_seen_at)

====
